---------------------------- MODULE Spec2Model ----------------------------
(***************************************************************************)
(* Dyxten point-cloud engine (src/unnamed/part_002): configuration merge,  *)
(* geometry rebuild (generator -> seeds -> sampler), and the per-frame     *)
(* pipeline (camera integration, projection, screen filter, depth sort,    *)
(* rasterisation calls).                                                   *)
(*                                                                         *)
(* Numbers are fixed point.  Lengths and sines are in hundredths           *)
(* (1.0 = 100), angles in whole degrees, screen positions in tenths of a   *)
(* pixel, time in milliseconds, the camera azimuth in thousandths of a     *)
(* degree.  Math.sin / Math.cos are a 15-degree table with linear          *)
(* interpolation.  Math.random() is a value drawn from RandU.              *)
(***************************************************************************)
EXTENDS Integers, Sequences, FiniteSets, TLC

\* ------------------------------------------------------------------ bounds
MaxSets == 2
MaxFrames == 2

\* ------------------------------------------------------- JavaScript numbers
Max(a, b) == IF a >= b THEN a ELSE b
Min(a, b) == IF a <= b THEN a ELSE b
Abs(a) == IF a < 0 THEN -a ELSE a

\* a / b rounded toward zero (fixed-point stand-in for a float quotient)
QuoT(a, b) ==
  IF b > 0 THEN (IF a >= 0 THEN a \div b ELSE -((-a) \div b))
  ELSE (IF a >= 0 THEN -(a \div (-b)) ELSE (-a) \div (-b))

\* JavaScript a % n: the remainder has the sign of the dividend
JsRem(a, n) == IF a >= 0 THEN a % n ELSE -((-a) % n)

\* The value every non-finite coordinate (NaN) is held as.
NaN == -(2^30)

\* A count parameter is held as <<hi, lo>> = hi * 65536 + lo, 0 <= lo < 65536,
\* so that values outside the signed 32-bit range can be written down.
Wide(n) == <<n \div 65536, n % 65536>>

\* x|0 : ToInt32, wraps modulo 2^32 into [-2^31, 2^31)
ToInt32(w) ==
  LET h == w[1] % 65536
  IN  (IF h >= 32768 THEN h - 65536 ELSE h) * 65536 + w[2]

\* x|0 for a parameter written as a plain integer
Int32Of(n) == ToInt32(Wide(n))

\* ------------------------------------------------------------ trigonometry
SinTable == <<0, 26, 50, 71, 87, 97, 100>>

\* sine of a degrees, 0 <= a <= 90: the table, interpolated linearly
SinQuadrant[a \in 0..90] ==
  IF a % 15 = 0 THEN SinTable[(a \div 15) + 1]
  ELSE SinTable[(a \div 15) + 1]
       + ((SinTable[(a \div 15) + 2] - SinTable[(a \div 15) + 1]) * (a % 15)) \div 15

SinTurn[a \in 0..359] ==
  IF a <= 90 THEN SinQuadrant[a]
  ELSE IF a <= 180 THEN SinQuadrant[180 - a]
  ELSE IF a <= 270 THEN -SinQuadrant[a - 180]
  ELSE -SinQuadrant[360 - a]

\* Math.sin of d degrees, in hundredths
SinDeg(d) == SinTurn[d % 360]

\* Math.cos of d degrees, in hundredths
CosDeg(d) == SinTurn[(d + 90) % 360]

\* Math.acos of c hundredths, in degrees (to the 15-degree grid)
AcosDeg(c) ==
  CHOOSE d \in {15 * k : k \in 0..12} :
    \A e \in {15 * k : k \in 0..12} : Abs(CosDeg(d) - c) <= Abs(CosDeg(e) - c)

\* Math.sqrt of n ten-thousandths, in hundredths
SqrtC(n) == CHOOSE r \in 0..200 : r * r <= n /\ n < (r + 1) * (r + 1)

\* product of two hundredths, in hundredths
MulC(a, b) == QuoT(a * b, 100)

\* ------------------------------------------------------------ configuration
\* A JavaScript value of appearance.colors: a string, or a number
JsString(s) == [ty |-> "string", s |-> s]
JsNumber(s) == [ty |-> "number", s |-> s]

DefaultState ==
  [ camera |-> [camRadius |-> 320, camHeightDeg |-> 15, camTiltDeg |-> 0,
                omegaDegPerSec |-> 20, fov |-> 600],
    geometry |-> [topology |-> "uv_sphere", R |-> 100, lat |-> 64, lon |-> 64,
                  N |-> Wide(4096), phi_g |-> 222,
                  R_major |-> 120, r_minor |-> 45,
                  lissajous_a |-> 3, lissajous_b |-> 2, lissajous_phase |-> 0,
                  torus_knot_p |-> 3, torus_knot_q |-> 2,
                  helix_r |-> 40, helix_pitch |-> 30, helix_turns |-> 3,
                  lic_N |-> 12, lic_steps |-> 180, lic_h |-> 3,
                  rgg_nodes |-> 400,
                  rings_count |-> 5, ring_points |-> 96,
                  hex_step |-> 20, hex_nx |-> 12, hex_ny |-> 12,
                  voronoi_N |-> 50, weight_map |-> "1",
                  density_pdf |-> "1", poisson_dmin |-> 5, df_ops |-> "sphere(1.0)"],
    appearance |-> [color |-> "#00C8FF", colors |-> JsString("#00C8FF@0,#FFFFFF@1"),
                    opacity |-> 100, px |-> 20, shape |-> "circle", alphaDepth |-> 0,
                    pxModMode |-> "none", pxModAmp |-> 0, pxModFreq |-> 0,
                    pxModPhaseDeg |-> 0],
    dynamics |-> [rotX |-> 0, rotY |-> 0, rotZ |-> 0, pulseA |-> 0, pulseW |-> 57,
                  pulsePhaseDeg |-> 0, orientXDeg |-> 0, orientYDeg |-> 0,
                  orientZDeg |-> 0],
    distribution |-> [densityMode |-> "uniform", sampler |-> "direct",
                      dmin |-> 0, dmin_px |-> 0, maskMode |-> "none",
                      densityPulse |-> 0, maskSoftness |-> 20, maskAnimate |-> 0,
                      noiseDistortion |-> 0, clusterCount |-> 1, clusterSpread |-> 0,
                      repelForce |-> 0, noiseWarp |-> 0, fieldFlow |-> 0],
    mask |-> [enabled |-> FALSE, mode |-> "none", angleDeg |-> 30, bandHalfDeg |-> 20,
              lonCenterDeg |-> 0, lonWidthDeg |-> 30, softDeg |-> 10, invert |-> FALSE],
    system |-> [Nmax |-> 50000, depthSort |-> TRUE, transparent |-> TRUE] ]

\* a section value of the argument of setDyxtenParams
Obj(f) == [isObject |-> TRUE, fields |-> f]
NonObj == [isObject |-> FALSE, fields |-> [none |-> 0]]

\* Object.assign(target, source)
ObjectAssign(target, source) ==
  [x \in (DOMAIN target) \cup (DOMAIN source) |->
     IF x \in DOMAIN source THEN source[x] ELSE target[x]]

\* the merge loop of setDyxtenParams
MergeParams_NoTypeCheck(st, obj) ==
  [k \in DOMAIN st |->
     IF k \in DOMAIN obj THEN ObjectAssign(st[k], obj[k].fields) ELSE st[k]]

MergeParams(st, obj) ==
  [k \in DOMAIN st |->
     IF k \in DOMAIN obj /\ obj[k].isObject
       THEN ObjectAssign(st[k], obj[k].fields)
       ELSE st[k]]

\* ---------------------------------------------------------------- generators
Pt(x, y, z) == [x |-> x, y |-> y, z |-> z]

\* Math.min(n, cap && cap>0 ? cap : n)
clampCount(n, st) ==
  LET cap == st.system.Nmax
  IN  Min(n, IF cap > 0 THEN cap ELSE n)

gen_uv_sphere(R, lat, lon) ==
  LET latSteps == Max(2, Int32Of(lat))
      lonSteps == Max(3, Int32Of(lon))
  IN  [k \in 1..(latSteps * lonSteps) |->
        LET i == (k - 1) \div lonSteps
            j == (k - 1) % lonSteps
            th == (180 * i) \div (latSteps - 1)
            ph == (360 * j) \div lonSteps
        IN  Pt(MulC(MulC(R, SinDeg(th)), CosDeg(ph)),
               MulC(R, CosDeg(th)),
               MulC(MulC(R, SinDeg(th)), SinDeg(ph)))]

gen_fibo_sphere(N, R, phi_g, st) ==
  LET count == clampCount(Max(1, ToInt32(N)), st)
      denom == Max(1, count - 1)
  IN  [k \in 1..count |->
        LET i == k - 1
            z == 100 - QuoT(200 * i, denom)
            r == SqrtC(Max(0, 10000 - z * z))
            phi == i * phi_g
        IN  Pt(MulC(MulC(R, r), CosDeg(phi)), MulC(R, z), MulC(MulC(R, r), SinDeg(phi)))]

gen_disk_phyllo(N, R, phi_g, st) ==
  LET count == clampCount(Max(1, ToInt32(N)), st)
  IN  [k \in 1..count |->
        LET i == k - 1
            theta == i * phi_g
            r == MulC(R, SqrtC(QuoT(10000 * i, Max(1, count - 1))))
        IN  Pt(MulC(r, CosDeg(theta)), 0, MulC(r, SinDeg(theta)))]

gen_lissajous_disk(g, st) ==
  LET count == clampCount(Max(2, ToInt32(g.N)), st)
      a == Max(1, Int32Of(g.lissajous_a))
      b == Max(1, Int32Of(g.lissajous_b))
  IN  [k \in 1..count |->
        LET t == QuoT(360 * (k - 1), count)
        IN  Pt(MulC(g.R, CosDeg(a * t + g.lissajous_phase)), 0, MulC(g.R, SinDeg(b * t)))]

gen_torus_knot(g, st) ==
  LET count == clampCount(Max(50, ToInt32(g.N)), st)
      p == Max(1, Int32Of(g.torus_knot_p))
      q == Max(1, Int32Of(g.torus_knot_q))
      total == 360 * p
  IN  [k \in 1..count |->
        LET t == QuoT(total * (k - 1), count)
            cosq == CosDeg(QuoT(q * t, p))
            sinq == SinDeg(QuoT(q * t, p))
            ring == g.R_major + MulC(g.r_minor, cosq)
        IN  Pt(MulC(MulC(ring, CosDeg(t)), g.R),
               MulC(MulC(ring, SinDeg(t)), g.R),
               MulC(MulC(g.r_minor, sinq), g.R))]

\* with count = 1 the parameter is 0/0: every coordinate is NaN
gen_helix(g, st) ==
  LET count == clampCount(Max(10, ToInt32(g.N)), st)
      total == 360 * g.helix_turns
  IN  [k \in 1..count |->
        IF count = 1 THEN Pt(NaN, NaN, NaN)
        ELSE LET t == QuoT(total * (k - 1), count - 1)
             IN  Pt(MulC(MulC(g.R, g.helix_r), CosDeg(t)),
                    QuoT(MulC(g.R, g.helix_pitch) * t, 360),
                    MulC(MulC(g.R, g.helix_r), SinDeg(t)))]

\* one stream line of gen_lic_sphere: `steps` points from (theta, phi)
RECURSIVE LicLine(_, _, _, _)
LicLine(g, theta, phi, steps) ==
  IF steps = 0 THEN <<>>
  ELSE LET uTheta == SinDeg(phi)
           uPhi == CosDeg(theta)
       IN  <<Pt(MulC(MulC(g.R, SinDeg(theta)), CosDeg(phi)),
                MulC(g.R, CosDeg(theta)),
                MulC(MulC(g.R, SinDeg(theta)), SinDeg(phi)))>>
           \o LicLine(g, Min(180, Max(0, theta + MulC(g.lic_h, uTheta))),
                      phi + MulC(g.lic_h, uPhi), steps - 1)

RECURSIVE LicLines(_, _, _, _, _)
LicLines(g, rnd, i, lines, steps) ==
  IF i > lines THEN <<>>
  ELSE LicLine(g, MulC(rnd[2 * i - 1], 180), MulC(rnd[2 * i], 360), steps)
       \o LicLines(g, rnd, i + 1, lines, steps)

gen_lic_sphere(g, rnd) ==
  LET lines == Max(1, Int32Of(g.lic_N))
      steps == Max(1, Int32Of(g.lic_steps))
  IN  LicLines(g, rnd, 1, lines, steps)

gen_random_geometric_graph(g, st, rnd) ==
  LET count == clampCount(Max(10, Int32Of(g.rgg_nodes)), st)
  IN  [k \in 1..count |->
        LET theta == AcosDeg(2 * rnd[2 * k - 1] - 100)
            phi == MulC(rnd[2 * k], 360)
        IN  Pt(MulC(MulC(g.R, SinDeg(theta)), CosDeg(phi)),
               MulC(g.R, CosDeg(theta)),
               MulC(MulC(g.R, SinDeg(theta)), SinDeg(phi)))]

gen_concentric_rings(g) ==
  LET rings == Max(1, Int32Of(g.rings_count))
      pts == Max(3, Int32Of(g.ring_points))
  IN  [k \in 1..(rings * pts) |->
        LET i == 1 + (k - 1) \div pts
            j == (k - 1) % pts
            radius == QuoT(g.R * i, rings)
            ang == QuoT(360 * j, pts)
        IN  Pt(MulC(radius, CosDeg(ang)), 0, MulC(radius, SinDeg(ang)))]

gen_hex_packing(g) ==
  LET step == g.hex_step
      nx == Max(1, Int32Of(g.hex_nx))
      ny == Max(1, Int32Of(g.hex_ny))
  IN  [k \in 1..(nx * ny) |->
        LET ix == (k - 1) \div ny
            iy == (k - 1) % ny
            x == ix * step + QuoT((iy % 2) * step, 2)
            z == MulC(iy * step, SinDeg(60))
        IN  Pt(x - QuoT((nx - 1) * step, 2), 0,
               z - QuoT(MulC((ny - 1) * step, SinDeg(60)), 2))]

\* voronoi_bbox is the default "-1,1,-1,1"
gen_voronoi_seeds(g, rnd) ==
  LET count == Max(1, Int32Of(g.voronoi_N))
  IN  [k \in 1..count |->
        Pt(-100 + MulC(rnd[2 * k - 1], 200), 0, -100 + MulC(rnd[2 * k], 200))]

\* the own keys of the generators table
GeneratorNames ==
  {"uv_sphere", "fibo_sphere", "disk_phyllotaxis", "archimede_spiral", "log_spiral",
   "rose_curve", "superformula_2D", "density_warp_disk", "poisson_disk", "lissajous_disk",
   "geodesic_sphere", "geodesic", "vogel_sphere_spiral", "superquadric", "superellipsoid",
   "half_sphere", "noisy_sphere", "spherical_harmonics", "weighted_sphere", "torus",
   "double_torus", "horn_torus", "spindle_torus", "torus_knot", "mobius", "strip_twist",
   "klein_bottle", "icosahedron", "dodecahedron", "octahedron", "tetrahedron", "cube",
   "truncated_icosa", "stellated_icosa", "polyhedron", "blob", "gyroid", "schwarz_P",
   "schwarz_D", "heart_implicit", "metaballs", "distance_field_shape", "superformula_3D",
   "helix", "lissajous3D", "viviani_curve", "line_integral_convolution_sphere",
   "stream_on_torus", "geodesic_graph", "random_geometric_graph", "concentric_rings",
   "hex_packing_plane", "voronoi_seeds"}

\* names that generators[name] finds on Object.prototype and that, called as
\* gen(g), return without raising a value that is no array: Object(g) is g,
\* toString() is a string.  rebuildGeometry then takes pts = [].
InheritedNonArray == {"constructor", "toString"}

\* generators[g.topology] || generators.uv_sphere, applied to g
Generate(st, rnd) ==
  LET g == st.geometry
      t == g.topology
  IN  CASE t = "fibo_sphere" -> gen_fibo_sphere(g.N, g.R, g.phi_g, st)
        [] t = "disk_phyllotaxis" -> gen_disk_phyllo(g.N, g.R, g.phi_g, st)
        [] t = "lissajous_disk" -> gen_lissajous_disk(g, st)
        [] t = "torus_knot" -> gen_torus_knot(g, st)
        [] t = "helix" -> gen_helix(g, st)
        [] t = "line_integral_convolution_sphere" -> gen_lic_sphere(g, rnd)
        [] t = "random_geometric_graph" -> gen_random_geometric_graph(g, st, rnd)
        [] t = "concentric_rings" -> gen_concentric_rings(g)
        [] t = "hex_packing_plane" -> gen_hex_packing(g)
        [] t = "voronoi_seeds" -> gen_voronoi_seeds(g, rnd)
        [] t \in InheritedNonArray -> <<>>
        [] OTHER -> gen_uv_sphere(g.R, g.lat, g.lon)

\* the number of Math.random() values the selected generator consumes
RandomDraws(st) ==
  LET g == st.geometry
      t == g.topology
  IN  CASE t = "line_integral_convolution_sphere" -> 2 * Max(1, Int32Of(g.lic_N))
        [] t = "random_geometric_graph" -> 2 * clampCount(Max(10, Int32Of(g.rgg_nodes)), st)
        [] t = "voronoi_seeds" -> 2 * Max(1, Int32Of(g.voronoi_N))
        [] OTHER -> 0

\* p.x||0 : NaN and 0 both give 0
OrZero(v) == IF v = NaN THEN 0 ELSE v

\* pts.map((p, idx) => ({ x:p.x||0, y:p.y||0, z:p.z||0, seed: idx }))
SeedPoints(pts) ==
  [k \in 1..Len(pts) |->
     [x |-> OrZero(pts[k].x), y |-> OrZero(pts[k].y), z |-> OrZero(pts[k].z), seed |-> k - 1]]

\* ------------------------------------------------------------------ sampler
\* randForIndex(i): frac(sin(i * 12.9898) * 43758.5453), in hundredths (i < 16)
RandForIndexTable == <<0, 92, 5, 55, 37, 45, 62, 16, 32, 53, 97, 82, 17, 99, 81, 44>>
randForIndex(i) == RandForIndexTable[(i % 16) + 1]

\* Math.hypot(x, y, z), in hundredths
RECURSIVE SqrtFrom(_, _)
SqrtFrom(n, r) == IF (r + 1) * (r + 1) > n THEN r ELSE SqrtFrom(n, r + 1)
Hypot3(x, y, z) == SqrtFrom(x * x + y * y + z * z, 0)

\* every sequence js of draws of shuffleArray on n elements:
\* js[i] = Math.floor(Math.random()*(i+1)) \in 0..i, for i = 1..n-1
RECURSIVE ShuffleDraws(_)
ShuffleDraws(n) ==
  IF n <= 1 THEN {<<>>}
  ELSE {d \o <<j>> : d \in ShuffleDraws(n - 1), j \in 0..(n - 1)}

Swap(arr, a, b) == [arr EXCEPT ![a] = arr[b], ![b] = arr[a]]

\* the loop of shuffleArray from index i (0-based) down to 1
RECURSIVE ShuffleFrom(_, _, _)
ShuffleFrom(arr, js, i) ==
  IF i < 1 THEN arr ELSE ShuffleFrom(Swap(arr, i + 1, js[i] + 1), js, i - 1)

shuffleArray(arr, js) == ShuffleFrom(arr, js, Len(arr) - 1)

\* the 27 cell offsets visited around a candidate
NeighbourOffsets == {<<dx, dy, dz>> : dx \in -1..1, dy \in -1..1, dz \in -1..1}

\* Math.floor(p.x / cell), Math.floor(p.y / cell), Math.floor(p.z / cell)
CellOf(p, cell) == <<p.x \div cell, p.y \div cell, p.z \div cell>>

Dist2(p, q) == (p.x - q.x) * (p.x - q.x) + (p.y - q.y) * (p.y - q.y) + (p.z - q.z) * (p.z - q.z)

\* does the lookup of the grid around p find an accepted point closer than minDist
GridRejects_SelfCellOnly(p, selected, minDist) ==
  \E k \in 1..Len(selected) :
    /\ CellOf(selected[k], minDist) = CellOf(p, minDist)
    /\ Dist2(p, selected[k]) < minDist * minDist

\* a test that looks at the cells only
GridRejects_AnyNeighbour(p, selected, minDist) ==
  \E o \in NeighbourOffsets :
    \E k \in 1..Len(selected) :
      CellOf(selected[k], minDist)
        = <<CellOf(p, minDist)[1] + o[1], CellOf(p, minDist)[2] + o[2],
            CellOf(p, minDist)[3] + o[3]>>

GridRejects(p, selected, minDist) ==
  LET c == CellOf(p, minDist)
  IN  \E o \in NeighbourOffsets :
        \E k \in 1..Len(selected) :
          /\ CellOf(selected[k], minDist) = <<c[1] + o[1], c[2] + o[2], c[3] + o[3]>>
          /\ Dist2(p, selected[k]) < minDist * minDist

\* the acceptance loop of enforceMinDistance over the shuffled order
RECURSIVE AcceptLoop(_, _, _, _)
AcceptLoop(order, k, selected, minDist) ==
  IF k > Len(order) THEN selected
  ELSE AcceptLoop(order, k + 1,
                  IF GridRejects(order[k], selected, minDist) THEN selected
                  ELSE Append(selected, order[k]),
                  minDist)

enforceMinDistance(points, minDist, js) ==
  IF minDist <= 0 THEN points
  ELSE AcceptLoop(shuffleArray(points, js), 1, <<>>, minDist)

blueNoiseSample(points, minDist, js) ==
  LET out == enforceMinDistance(points, minDist, js)
  IN  IF Len(out) > 0 THEN out ELSE points

\* weightForPoint, in hundredths.  A weight_map that is not blank is the value
\* of evalExpression when that is finite (it always is), at least 0; the
\* expression is evaluated inside with(Math), so "random()" is Math.random():
\* u is the value that call returns.  A blank weight_map is the radial weight.
weightForPoint(p, st, u) ==
  LET g == st.geometry
      r == Hypot3(p.x, p.y, p.z)
      R == IF g.R # 0 THEN g.R ELSE Max(r, 100)
  IN  IF g.weight_map = "random()" THEN Max(0, u)
      ELSE IF g.weight_map = "1" THEN 100
      ELSE Max(0, Min(100, 100 - QuoT(100 * r, Max(1, R))))

\* the value of the k-th call of Math.random() among the values us
DrawAt(us, k) == us[k]

\* the value Math.random() returns to the weight of point number k, if called
WeightDraw(st, us, k) == IF st.geometry.weight_map = "random()" THEN DrawAt(us, k) ELSE 0

\* the values of Math.random() for a weight_map that makes no call of it
NoDraws == <<>>

RECURSIVE MaxWeight(_, _, _, _)
MaxWeight(points, st, us, k) ==
  IF k > Len(points) THEN 0
  ELSE Max(weightForPoint(points[k], st, WeightDraw(st, us, k)),
           MaxWeight(points, st, us, k + 1))

\* randForIndex((points[i].seed ?? i)+1)
KeepDraw(points, k) == randForIndex(points[k].seed + 1)

RECURSIVE WeightedKeep(_, _, _, _, _)
WeightedKeep(points, st, us, maxW, k) ==
  IF k > Len(points) THEN <<>>
  ELSE LET norm == QuoT(100 * weightForPoint(points[k], st, WeightDraw(st, us, k)), maxW)
       IN  (IF norm >= 100 \/ KeepDraw(points, k) <= norm THEN <<points[k]>> ELSE <<>>)
           \o WeightedKeep(points, st, us, maxW, k + 1)

weightedSample(points, st, us) ==
  IF Len(points) = 0 THEN <<>>
  ELSE LET maxW == MaxWeight(points, st, us, 1)
       IN  IF maxW <= 0 THEN points
           ELSE LET out == WeightedKeep(points, st, us, maxW, 1)
                IN  IF Len(out) > 0 THEN out ELSE points

\* the list handed to enforceMinDistance by applySampler
SamplerInput(points, st) ==
  IF st.distribution.sampler = "weighted_sampling" THEN weightedSample(points, st, NoDraws)
  ELSE points

applySampler(points, st, js) ==
  LET dist == st.distribution
      minDist == Max(0, dist.dmin)
      sampler == dist.sampler
  IN  IF sampler = "blue_noise" THEN blueNoiseSample(points, minDist, js)
      ELSE IF sampler = "weighted_sampling"
        THEN LET working == weightedSample(points, st, NoDraws)
             IN  IF minDist > 0 THEN enforceMinDistance(working, minDist, js) ELSE working
      ELSE IF minDist > 0 THEN enforceMinDistance(points, minDist, js)
      ELSE points

\* basePoints after rebuildGeometry on state st, with the generator's random
\* values rnd and the shuffle's draws js
rebuildGeometry_NoSampler(st, rnd, js) == SeedPoints(Generate(st, rnd))

\* a rebuild that numbers the points again by their place in basePoints
rebuildGeometry_SeedByPosition(st, rnd, js) ==
  LET pts == applySampler(SeedPoints(Generate(st, rnd)), st, js)
  IN  [k \in 1..Len(pts) |->
        [x |-> pts[k].x, y |-> pts[k].y, z |-> pts[k].z, seed |-> k - 1]]

rebuildGeometry(st, rnd, js) ==
  LET pts == applySampler(SeedPoints(Generate(st, rnd)), st, js)
  IN  [k \in 1..Len(pts) |->
        [x |-> pts[k].x, y |-> pts[k].y, z |-> pts[k].z, seed |-> pts[k].seed]]

\* -------------------------------------------------------------------- frame
\* x||d for a number: 0 (and NaN) give d
OrElse(v, d) == IF v = 0 \/ v = NaN THEN d ELSE v

\* the rotations of frame and applyPointModifiers, by deg degrees
\* about z: x' = c*x - s*y, y' = s*x + c*y
RotZ(p, deg) ==
  Pt(MulC(CosDeg(deg), p.x) - MulC(SinDeg(deg), p.y),
     MulC(SinDeg(deg), p.x) + MulC(CosDeg(deg), p.y), p.z)

\* about x: y' = c*y - s*z, z' = s*y + c*z
RotX(p, deg) ==
  Pt(p.x, MulC(CosDeg(deg), p.y) - MulC(SinDeg(deg), p.z),
     MulC(SinDeg(deg), p.y) + MulC(CosDeg(deg), p.z))

\* about y: x' = c*x + s*z, z' = -s*x + c*z
RotY(p, deg) ==
  Pt(MulC(CosDeg(deg), p.x) + MulC(SinDeg(deg), p.z), p.y,
     MulC(CosDeg(deg), p.z) - MulC(SinDeg(deg), p.x))

\* camera yaw: Xc = cosT*x - sinT*z, Zc = sinT*x + cosT*z
Yaw(p, deg) ==
  Pt(MulC(CosDeg(deg), p.x) - MulC(SinDeg(deg), p.z), p.y,
     MulC(SinDeg(deg), p.x) + MulC(CosDeg(deg), p.z))

ScalePt(p, k) == Pt(MulC(p.x, k), MulC(p.y, k), MulC(p.z, k))

\* clamp01(v), in hundredths
clamp01(v) == Max(0, Min(100, v))

\* sphericalFromCartesian: theta = Math.acos(y / r), r = Math.hypot(x,y,z) || 1
SphTheta(x, y, z) == AcosDeg(QuoT(100 * y, OrElse(SqrtC(x * x + y * y + z * z), 100)))

\* (Math.atan2(z, x) + 2*Math.PI) % (2*Math.PI), in degrees (to the 15-degree grid)
SphPhi(x, z) ==
  IF x = 0 /\ z = 0 THEN 0
  ELSE CHOOSE d \in {15 * k : k \in 0..23} :
         \A e \in {15 * k : k \in 0..23} :
           x * CosDeg(d) + z * SinDeg(d) >= x * CosDeg(e) + z * SinDeg(e)

\* t*t*(3 - 2*t), in hundredths
Hermite(t) == QuoT(t * t * (300 - 2 * t), 10000)

\* smoothStep(edge0, edge1, x), in hundredths
smoothStep(edge0, edge1, x) ==
  IF edge1 = edge0 THEN (IF x < edge0 THEN 0 ELSE 100)
  ELSE Hermite(clamp01(QuoT(100 * (x - edge0), edge1 - edge0)))

\* ------------------------------------------------------- point modifiers
\* the value of a key that was set to undefined
Undefined == NaN - 2

\* rec[key], a missing key reading as undefined
Field(rec, key) == IF key \in DOMAIN rec THEN rec[key] ELSE Undefined

\* v || 0 for a number or undefined
NumOrZero(v) == IF v = NaN \/ v = Undefined THEN 0 ELSE v

\* Math.hypot(x, y, z), in hundredths
Hypot3C(x, y, z) ==
  CHOOSE r \in 0..1000 :
    r * r <= x * x + y * y + z * z /\ x * x + y * y + z * z < (r + 1) * (r + 1)

\* hash3, in hundredths.  In double arithmetic n*(n*n*15731+789221) exceeds
\* 2^85 for most lattice cells, so the 31 low bits kept by & 0x7fffffff are 0
\* and the value is 1; the cells within -12..12 with another value are listed
Hash3Cells ==
  { <<-12, -3, 10, 94>>, <<-12, 1, 9, 50>>, <<-11, -9, 10, 50>>, <<-11, 6, 8, 75>>,
    <<-11, 8, -4, 17>>, <<-10, -12, 3, 12>>, <<-10, 0, 8, 50>>, <<-9, -6, 8, 25>>,
    <<-8, -9, 1, 50>>, <<-8, 3, 6, 75>>, <<-8, 5, 4, 75>>, <<-8, 5, 11, 94>>,
    <<-7, 12, -9, 8>>, <<-5, 0, 4, 44>>, <<-5, 12, 9, 50>>, <<-4, 9, -1, 50>>,
    <<-4, 9, 6, 69>>, <<-3, -10, -9, 75>>, <<-2, -3, 2, 25>>, <<-2, 12, 0, 50>>,
    <<-1, 6, 0, 69>>, <<0, 0, 0, 36>>, <<2, -12, 0, 50>>, <<2, 3, -2, 6>>,
    <<4, -9, -6, 19>>, <<5, -12, -9, 38>>, <<5, 0, -4, 94>>, <<7, -12, 9, 88>>,
    <<8, -5, -11, 78>>, <<8, -5, -4, 25>>, <<8, -3, -6, 50>>, <<8, 9, -1, 50>>,
    <<9, -9, -6, 50>>, <<9, 6, -8, 88>>, <<10, 11, 12, 88>>, <<10, 12, -3, 50>>,
    <<11, -8, 4, 91>>, <<11, -6, -8, 50>>, <<12, 3, -10, 19>> }

hash3(ix, iy, iz) ==
  IF \E c \in Hash3Cells : c[1] = ix /\ c[2] = iy /\ c[3] = iz
    THEN (CHOOSE c \in Hash3Cells : c[1] = ix /\ c[2] = iy /\ c[3] = iz)[4]
    ELSE 100

\* lerp(a,b,t) = a + (b-a)*t
NoiseLerp(a, b, t) == a + MulC(b - a, t)

\* the interpolation of valueNoise3 in the cell (xi,yi,zi) at the smoothed
\* fractions u, v, w
NoiseAt(xi, yi, zi, u, v, w) ==
  NoiseLerp(NoiseLerp(NoiseLerp(hash3(xi, yi, zi), hash3(xi + 1, yi, zi), u),
                      NoiseLerp(hash3(xi, yi + 1, zi), hash3(xi + 1, yi + 1, zi), u), v),
            NoiseLerp(NoiseLerp(hash3(xi, yi, zi + 1), hash3(xi + 1, yi, zi + 1), u),
                      NoiseLerp(hash3(xi, yi + 1, zi + 1), hash3(xi + 1, yi + 1, zi + 1), u),
                      v),
            w)

\* smooth(t) = t*t*(3-2*t), in hundredths
NoiseSmooth(t) == QuoT(t * t * (300 - 2 * t), 10000)

\* valueNoise3(x,y,z), coordinates and value in hundredths
valueNoise3(x, y, z) ==
  NoiseAt(x \div 100, y \div 100, z \div 100,
          NoiseSmooth(x % 100), NoiseSmooth(y % 100), NoiseSmooth(z % 100))

\* amp * (valueNoise3(...) * 2 - 1)
NoiseShift(amp, n) == MulC(amp, 2 * n - 100)

\* clusterCount = Math.max(1, (dist.clusterCount||0)|0)
ClusterCount(dist) == Max(1, NumOrZero(Field(dist, "clusterCount")))

\* spread = clamp01(dist.clusterSpread || 0)
ClusterSpread(dist) == Max(0, Min(100, NumOrZero(Field(dist, "clusterSpread"))))

\* if (clusterCount > 1 && spread > 0)
ClusterActive_NoCountTest(clusterCount, spread) == spread > 0

ClusterActive(clusterCount, spread) == clusterCount > 1 /\ spread > 0

\* fy = 1 - 2 * ((cid + 0.5) / clusterCount)
ClusterFy(cid, clusterCount) == 100 - QuoT(2 * (100 * cid + 50), clusterCount)

\* the centre (cx, cy, cz) of cluster cid; ang = cid * 2.39996... rad = cid * 137.51 degrees
ClusterCentre(cid, fy) ==
  Pt(MulC(SqrtC(Max(0, 10000 - fy * fy)), CosDeg(QuoT(cid * 13751, 100))),
     fy,
     MulC(SqrtC(Max(0, 10000 - fy * fy)), SinDeg(QuoT(cid * 13751, 100))))

\* x = (1 - spread) * x + spread * R * cx, and so for y and z
ClusterPull(p, c, spread, R) ==
  Pt(MulC(100 - spread, p.x) + MulC(spread, MulC(R, c.x)),
     MulC(100 - spread, p.y) + MulC(spread, MulC(R, c.y)),
     MulC(100 - spread, p.z) + MulC(spread, MulC(R, c.z)))

ClusterStage(p, seed, clusterCount, spread, R) ==
  IF ClusterActive(clusterCount, spread)
    THEN ClusterPull(p, ClusterCentre(seed % clusterCount,
                                      ClusterFy(seed % clusterCount, clusterCount)),
                     spread, R)
    ELSE p

\* if (nd): amp = nd * R * 0.5, freq = 1.7
DistortStage(p, bp, nd, R) ==
  IF nd # 0
    THEN Pt(p.x + NoiseShift(QuoT(MulC(nd, R), 2),
                             valueNoise3(QuoT((bp.x + 530) * 17, 10),
                                         QuoT((bp.y - 210) * 17, 10),
                                         QuoT((bp.z + 370) * 17, 10))),
            p.y + NoiseShift(QuoT(MulC(nd, R), 2),
                             valueNoise3(QuoT((bp.x - 820) * 17, 10),
                                         QuoT((bp.y + 440) * 17, 10),
                                         QuoT((bp.z + 110) * 17, 10))),
            p.z + NoiseShift(QuoT(MulC(nd, R), 2),
                             valueNoise3(QuoT((bp.x + 260) * 17, 10),
                                         QuoT((bp.y + 90) * 17, 10),
                                         QuoT((bp.z - 650) * 17, 10))))
    ELSE p

\* anim = t * 0.6, in hundredths (now in milliseconds)
WarpAnim(now) == QuoT(6 * now, 100)

\* if (nw): amp = nw * R * 0.4, freq = 1.3
WarpStage(p, bp, nw, R, anim) ==
  IF nw # 0
    THEN Pt(p.x + NoiseShift(MulC(MulC(nw, R), 40),
                             valueNoise3(QuoT((bp.x + anim) * 13, 10),
                                         QuoT((bp.y - anim) * 13, 10),
                                         QuoT((bp.z + 200 + anim) * 13, 10))),
            p.y + NoiseShift(MulC(MulC(nw, R), 40),
                             valueNoise3(QuoT((bp.x - anim) * 13, 10),
                                         QuoT((bp.y + anim) * 13, 10),
                                         QuoT((bp.z - anim) * 13, 10))),
            p.z + NoiseShift(MulC(MulC(nw, R), 40),
                             valueNoise3(QuoT((bp.x + QuoT(anim, 2)) * 13, 10),
                                         QuoT((bp.y + 2 * anim) * 13, 10),
                                         QuoT((bp.z - QuoT(anim, 4)) * 13, 10))))
    ELSE p

\* ang = flow*0.4*t + flow*0.3*(y / Math.max(1e-6, R)), in degrees (1 rad = 57.3 degrees)
FlowAngle(flow, y, R, now) ==
  QuoT(573 * (MulC(MulC(flow, 40), QuoT(now, 10)) + MulC(MulC(flow, 30), QuoT(100 * y, Max(1, R)))),
       1000)

\* if (flow): X = c*x - s*z, Z = s*x + c*z
FlowStage(p, flow, R, now) ==
  IF flow # 0 THEN Yaw(p, FlowAngle(flow, p.y, R, now)) ELSE p

\* x += diff * k * (x / r), and so for y and z
RepelPush(p, r, dk) ==
  Pt(p.x + MulC(dk, QuoT(100 * p.x, r)), p.y + MulC(dk, QuoT(100 * p.y, r)),
     p.z + MulC(dk, QuoT(100 * p.z, r)))

\* if (repel): r = Math.hypot(x,y,z) || 1, diff = R - r, k = repel * 0.6
RepelStage(p, repel, R) ==
  IF repel # 0
    THEN RepelPush(p, OrElse(Hypot3C(p.x, p.y, p.z), 100),
                   MulC(R - OrElse(Hypot3C(p.x, p.y, p.z), 100), MulC(repel, 60)))
    ELSE p

\* if (pulse): scale = 1 + 0.3 * pulse * Math.sin(t * 2 * Math.PI)
PulseStage(p, pulse, now) ==
  IF pulse # 0
    THEN ScalePt(p, 100 + QuoT(30 * MulC(pulse, SinDeg(QuoT(360 * now, 1000))), 100))
    ELSE p

\* dyn.orientXDeg !== undefined ? dyn.orientXDeg : (dist.orientXDeg || 0), then || 0
OrientDeg(dyn, dist, key) ==
  IF Field(dyn, key) # Undefined THEN NumOrZero(Field(dyn, key))
  ELSE NumOrZero(Field(dist, key))

OrientXStage(p, ox) == IF ox # 0 THEN RotX(p, ox) ELSE p

OrientStage(p, oy) == IF oy # 0 THEN RotY(p, oy) ELSE p

OrientZStage(p, oz) == IF oz # 0 THEN RotZ(p, oz) ELSE p

\* the names of the stages of applyPointModifiers, in the order they are applied
ModifierStages ==
  <<"cluster", "noiseDistortion", "noiseWarp", "fieldFlow", "repelForce", "densityPulse",
    "orientX", "orientY", "orientZ">>

\* stage number k applied to the running point p
ModifierStage(k, p, bp, seed, st, R, now) ==
  CASE k = 1 -> ClusterStage(p, seed, ClusterCount(st.distribution),
                             ClusterSpread(st.distribution), R)
    [] k = 2 -> DistortStage(p, bp, NumOrZero(Field(st.distribution, "noiseDistortion")), R)
    [] k = 3 -> WarpStage(p, bp, NumOrZero(Field(st.distribution, "noiseWarp")), R,
                          WarpAnim(now))
    [] k = 4 -> FlowStage(p, NumOrZero(Field(st.distribution, "fieldFlow")), R, now)
    [] k = 5 -> RepelStage(p, NumOrZero(Field(st.distribution, "repelForce")), R)
    [] k = 6 -> PulseStage(p, NumOrZero(Field(st.distribution, "densityPulse")), now)
    [] k = 7 -> OrientXStage(p, OrientDeg(st.dynamics, st.distribution, "orientXDeg"))
    [] k = 8 -> OrientStage(p, OrientDeg(st.dynamics, st.distribution, "orientYDeg"))
    [] k = 9 -> OrientZStage(p, OrientDeg(st.dynamics, st.distribution, "orientZDeg"))

\* the running point (x, y, z) before the first stage and after each stage
RECURSIVE ModifierTrace(_, _, _, _, _, _)
ModifierTrace(tr, bp, seed, st, R, now) ==
  IF Len(tr) > Len(ModifierStages) THEN tr
  ELSE ModifierTrace(Append(tr, ModifierStage(Len(tr), tr[Len(tr)], bp, seed, st, R, now)),
                     bp, seed, st, R, now)

\* R = state.geometry.R || baseR, baseR = Math.max(Math.hypot(bp.x, bp.y, bp.z), 1e-6)
ModifierR(bp, st) == OrElse(st.geometry.R, Max(Hypot3C(bp.x, bp.y, bp.z), 1))

applyPointModifiersTrace(bp, seed, st, now) ==
  ModifierTrace(<<Pt(bp.x, bp.y, bp.z)>>, bp, seed, st, ModifierR(bp, st), now)

applyPointModifiers(bp, seed, st, now) ==
  applyPointModifiersTrace(bp, seed, st, now)[Len(ModifierStages) + 1]

\* anim = speed ? Math.sin(now * 0.001 * 2 * Math.PI * speed) : 0, in hundredths
MaskAnim(speed, now) == IF speed # 0 THEN SinDeg(QuoT(360 * now * speed, 100000)) ELSE 0

\* the weight of the north cap: angles in hundredths of a degree, 0.2 rad and
\* 0.05 rad being 11.46 and 2.86 degrees
NorthCapWeight(softness, anim, theta) ==
  100 - smoothStep(6000 + QuoT(1146 * anim, 100),
                   6000 + QuoT(1146 * anim, 100) + 90 * softness + 286, 100 * theta)

\* the weight of the band about the animated centre
BandWeight(softness, anim, theta) ==
  100 - smoothStep(3000 + 45 * softness, 3000 + 45 * softness + 60 * softness + 286,
                   Abs(100 * theta - (9000 + 60 * anim)))

\* computeMaskWeight, in hundredths: modes "none", "north_cap", "band", and any
\* name that is no mode ("random_patch" is not among the modes configured)
computeMaskWeight(p3, st, now) ==
  IF st.distribution.maskMode = "none" THEN 100
  ELSE IF st.distribution.maskMode = "north_cap"
    THEN NorthCapWeight(Max(0, st.distribution.maskSoftness),
                        MaskAnim(st.distribution.maskAnimate, now),
                        SphTheta(p3.x, p3.y, p3.z))
  ELSE IF st.distribution.maskMode = "band"
    THEN BandWeight(Max(0, st.distribution.maskSoftness),
                    MaskAnim(st.distribution.maskAnimate, now),
                    SphTheta(p3.x, p3.y, p3.z))
  ELSE 100

\* keepByDistribution: densityMode "uniform" leaves the weight at the mask weight
KeepForWeight(weight, seed) ==
  IF weight <= 0 THEN FALSE
  ELSE IF weight >= 100 THEN TRUE
  ELSE randForIndex(seed + 1) <= weight

keepByDistribution(p3, seed, st, now) ==
  KeepForWeight(Max(0, Min(100, computeMaskWeight(p3, st, now))), seed)

\* the pulse factor of the dynamics section (phase mode "none"), in hundredths
DynPulse(st, now) ==
  100 + MulC(st.dynamics.pulseA,
             SinDeg(QuoT(st.dynamics.pulseW * now, 1000) + st.dynamics.pulsePhaseDeg))

\* Rz, Rx, Ry by the configured angular rates
DynRotate(p, st, now) ==
  RotY(RotX(RotZ(p, QuoT(st.dynamics.rotZ * now, 1000)),
            QuoT(st.dynamics.rotX * now, 1000)),
       QuoT(st.dynamics.rotY * now, 1000))

\* yaw by the azimuth, pitch by the elevation, roll by the tilt
CameraRotate(p, st, thetaDeg) ==
  RotZ(RotX(Yaw(p, thetaDeg), st.camera.camHeightDeg), st.camera.camTiltDeg)

\* the size modulation 1 + pxMod, in hundredths (modes "none" and "by_index")
SizeFactor(i, n, st, now) ==
  100 + MulC(st.appearance.pxModAmp,
             SinDeg(QuoT(360 * st.appearance.pxModFreq * now, 1000)
                    + st.appearance.pxModPhaseDeg
                    + (IF st.appearance.pxModMode = "by_index" /\ n > 1
                         THEN QuoT(360 * i, n - 1) ELSE 0)))

\* s = fov/(fov+zcam*SCALE), in hundredths; NaN when the denominator is 0
PerspScale(zcam, fov, SCALE) ==
  IF fov + QuoT(zcam * SCALE, 100) = 0 THEN NaN
  ELSE QuoT(100 * fov, fov + QuoT(zcam * SCALE, 100))

\* the item pushed for base point i: screen position, depth, radius
MakeItem(i, w, pc, zcam, s, SCALE, vp, basePx, sizeFactor, kept) ==
  [i |-> i,
   sx |-> IF s = NaN THEN NaN ELSE 5 * vp[1] + QuoT(pc.x * SCALE * s, 1000),
   sy |-> IF s = NaN THEN NaN ELSE 5 * vp[2] - QuoT(pc.y * SCALE * s, 1000),
   z |-> zcam,
   r |-> IF s = NaN THEN NaN
         ELSE QuoT(Max(50, QuoT(120 * s, 100)) * basePx * sizeFactor, 10000),
   X |-> w.x, Y |-> w.y, Z |-> w.z,
   kept |-> kept]

ViewScale(vp) == QuoT(45 * Min(vp[1], vp[2]), 100)

ProjectCam(i, n, w, pc, zcam, st, now, vp, kept) ==
  MakeItem(i, w, pc, zcam,
           PerspScale(zcam, OrElse(st.camera.fov, 600), ViewScale(vp)),
           ViewScale(vp), vp, OrElse(st.appearance.px, 20), SizeFactor(i, n, st, now), kept)

ProjectWorld(i, n, w, pc, st, now, vp, kept) ==
  ProjectCam(i, n, w, pc, pc.z + OrElse(st.camera.camRadius, 320), st, now, vp, kept)

ProjectMod(i, n, seed, mod, w, st, thetaDeg, now, vp) ==
  ProjectWorld(i, n, w, CameraRotate(DynRotate(w, st, now), st, thetaDeg), st, now, vp,
               keepByDistribution(mod, seed, st, now))

ProjectScaled(i, n, seed, mod, st, thetaDeg, now, vp) ==
  ProjectMod(i, n, seed, mod, ScalePt(mod, DynPulse(st, now)), st, thetaDeg, now, vp)

\* the item of base point number i (0-based) of n.  vp = <<innerWidth, innerHeight>>
ProjectItem(i, n, bp, st, thetaDeg, now, vp) ==
  ProjectScaled(i, n, bp.seed, applyPointModifiers(bp, bp.seed, st, now), st, thetaDeg, now, vp)

\* the 3x3 lookup of screenKeep in the grid of accepted screen points
ScreenCell(v, cell) == IF v = NaN THEN NaN ELSE v \div cell

ScreenDist2(a, b) == (a.sx - b.sx) * (a.sx - b.sx) + (a.sy - b.sy) * (a.sy - b.sy)

ScreenRejects_NoNeighbours(it, grid, dmin, cell) ==
  \E k \in 1..Len(grid) :
    /\ it.sx # NaN /\ grid[k].sx # NaN
    /\ ScreenCell(grid[k].sx, cell) = ScreenCell(it.sx, cell)
    /\ ScreenCell(grid[k].sy, cell) = ScreenCell(it.sy, cell)
    /\ ScreenDist2(it, grid[k]) < dmin * dmin

ScreenRejects(it, grid, dmin, cell) ==
  \E dx \in -1..1, dy \in -1..1 :
    \E k \in 1..Len(grid) :
      /\ it.sx # NaN /\ grid[k].sx # NaN
      /\ ScreenCell(grid[k].sx, cell) = ScreenCell(it.sx, cell) + dx
      /\ ScreenCell(grid[k].sy, cell) = ScreenCell(it.sy, cell) + dy
      /\ ScreenDist2(it, grid[k]) < dmin * dmin

\* one iteration of the loop over basePoints: acc = [items, grid]
ItemStep(acc, it, dmin, cell) ==
  IF ~it.kept THEN acc
  ELSE IF dmin <= 0 THEN [items |-> Append(acc.items, it), grid |-> acc.grid]
  ELSE IF ScreenRejects(it, acc.grid, dmin, cell) THEN acc
  ELSE [items |-> Append(acc.items, it), grid |-> Append(acc.grid, it)]

RECURSIVE ItemLoop(_, _, _, _, _, _, _)
ItemLoop(base, k, st, thetaDeg, now, vp, acc) ==
  IF k > Len(base) THEN acc.items
  ELSE ItemLoop(base, k + 1, st, thetaDeg, now, vp,
                ItemStep(acc, ProjectItem(k - 1, Len(base), base[k], st, thetaDeg, now, vp),
                         st.distribution.dmin_px, Max(10, st.distribution.dmin_px)))

FrameItems(base, st, thetaDeg, now, vp) ==
  ItemLoop(base, 1, st, thetaDeg, now, vp, [items |-> <<>>, grid |-> <<>>])

\* items.sort((a,b)=>b.z-a.z): stable, descending z
RECURSIVE InsertByDepth(_, _)
InsertByDepth(sorted, it) ==
  IF sorted = <<>> THEN <<it>>
  ELSE IF sorted[Len(sorted)].z >= it.z THEN Append(sorted, it)
  ELSE Append(InsertByDepth(SubSeq(sorted, 1, Len(sorted) - 1), it), sorted[Len(sorted)])

RECURSIVE SortFrom(_, _, _)
SortFrom(items, k, sorted) ==
  IF k > Len(items) THEN sorted ELSE SortFrom(items, k + 1, InsertByDepth(sorted, items[k]))

SortByDepth(items) == SortFrom(items, 1, <<>>)

\* if (state.system.depthSort) items.sort(...)
DepthOrder_Unsorted(items, st) == items

DepthOrder(items, st) == IF st.system.depthSort THEN SortByDepth(items) ELSE items

\* parseStops(state.appearance.colors) raises a TypeError when colors is a
\* truthy value that is no string: (s||"").split is not a function
parseStopsThrows(st) == st.appearance.colors.ty # "string"

\* ctx.arc raises IndexSizeError for a negative finite radius; fillRect never raises
DrawThrows(it, st) == st.appearance.shape # "square" /\ it.r # NaN /\ it.sx # NaN /\ it.r < 0

\* smoothstep(e0, e1, x) of frame: the edge width is Math.max(1e-6, e1 - e0)
smoothstep(e0, e1, x) ==
  IF e1 - e0 <= 0 THEN (IF x > e0 THEN 100 ELSE 0)
  ELSE Hermite(clamp01(QuoT(100 * (x - e0), e1 - e0)))

\* angDist(a, b), in degrees
angDist(a, b) == IF Abs(a - b) > 180 THEN 360 - Abs(a - b) ELSE Abs(a - b)

\* the weight w of the mask shape m at polar angle theta and azimuth phi
MaskShape(m, theta, phi) ==
  IF m.mode = "north_cap"
    THEN 100 - smoothstep(OrElse(m.angleDeg, 30),
                          OrElse(m.angleDeg, 30) + OrElse(m.softDeg, 10), theta)
  ELSE IF m.mode = "south_cap"
    THEN 100 - smoothstep(OrElse(m.angleDeg, 30),
                          OrElse(m.angleDeg, 30) + OrElse(m.softDeg, 10), 180 - theta)
  ELSE IF m.mode = "equatorial_band"
    THEN 100 - smoothstep(OrElse(m.bandHalfDeg, 20),
                          OrElse(m.bandHalfDeg, 20) + OrElse(m.softDeg, 10), Abs(theta - 90))
  ELSE IF m.mode = "longitudinal_band"
    THEN 100 - smoothstep(QuoT(OrElse(m.lonWidthDeg, 30), 2),
                          QuoT(OrElse(m.lonWidthDeg, 30), 2) + OrElse(m.softDeg, 10),
                          angDist(phi, JsRem(m.lonCenterDeg + 360, 360)))
  ELSE 100

\* maskWeight(p) of frame, in hundredths
maskWeight_NoNoneTest(p, st) ==
  IF ~st.mask.enabled THEN 100
  ELSE clamp01(IF st.mask.invert
                 THEN 100 - MaskShape(st.mask, SphTheta(p.X, p.Y, p.Z), SphPhi(p.X, p.Z))
                 ELSE MaskShape(st.mask, SphTheta(p.X, p.Y, p.Z), SphPhi(p.X, p.Z)))

maskWeight(p, st) ==
  IF ~st.mask.enabled \/ st.mask.mode = "none" THEN 100
  ELSE clamp01(IF st.mask.invert
                 THEN 100 - MaskShape(st.mask, SphTheta(p.X, p.Y, p.Z), SphPhi(p.X, p.Z))
                 ELSE MaskShape(st.mask, SphTheta(p.X, p.Y, p.Z), SphPhi(p.X, p.Z)))

\* Math.atan(z) / (Math.PI/2) for z >= 0, in hundredths (to the 15-degree grid)
AtanTurn(z) ==
  QuoT(100 * (CHOOSE d \in {15 * k : k \in 0..6} :
                \A e \in {15 * k : k \in 0..6} :
                  Abs(100 * SinDeg(d) - z * CosDeg(d)) <= Abs(100 * SinDeg(e) - z * CosDeg(e))),
       90)

\* depthAlpha(z), in hundredths: (1-ad) + ad*(1 - t)
depthAlpha(z, st) ==
  IF clamp01(st.appearance.alphaDepth) <= 0 THEN 100
  ELSE (100 - clamp01(st.appearance.alphaDepth))
       + MulC(clamp01(st.appearance.alphaDepth), 100 - clamp01(AtanTurn(Max(0, z))))

\* globalAlpha of an item, in hundredths:
\* clamp01((state.appearance.opacity||1) * aMask * aDepth)
ItemAlpha(it, st) ==
  clamp01(MulC(MulC(OrElse(st.appearance.opacity, 100), maskWeight(it, st)),
               depthAlpha(it.z, st)))

\* the draw call of one item
DrawCall(it, st) ==
  [i |-> it.i, sx |-> it.sx, sy |-> it.sy, z |-> it.z, r |-> it.r,
   alpha |-> ItemAlpha(it, st), threw |-> DrawThrows(it, st),
   aMask |-> maskWeight(it, st), aDepth |-> depthAlpha(it.z, st)]

\* the draw calls of the render loop, up to and including one that raises
RECURSIVE RenderLoop(_, _, _)
RenderLoop(items, k, st) ==
  IF k > Len(items) THEN <<>>
  ELSE IF DrawThrows(items[k], st) THEN <<DrawCall(items[k], st)>>
  ELSE <<DrawCall(items[k], st)>> \o RenderLoop(items, k + 1, st)

\* dt = Math.min(0.1, Math.max(0, (now - lastT)/1000)), in ms
FrameDt_NoClamp(now, lastT) == now - lastT

FrameDt(now, lastT) == Min(100, Max(0, now - lastT))

\* camThetaDeg = (camThetaDeg + omega*dt) % 360, in thousandths of a degree
AdvanceAzimuth_NoWrap(camTheta, omega, dt) == camTheta + omega * dt

AdvanceAzimuth(camTheta, omega, dt) == JsRem(camTheta + omega * dt, 360000)

FrameResult(theta, now, calls, st) ==
  [camThetaDeg |-> theta, lastT |-> now, calls |-> calls,
   requested |-> ~(parseStopsThrows(st) \/ \E k \in 1..Len(calls) : calls[k].threw)]

FrameRender(theta, now, items, st) ==
  FrameResult(theta, now, IF parseStopsThrows(st) THEN <<>> ELSE RenderLoop(items, 1, st), st)

FrameAt(st, base, theta, now, vp) ==
  FrameRender(theta, now, DepthOrder(FrameItems(base, st, QuoT(theta, 1000), now, vp), st), st)

\* one run of frame(now): the new azimuth and lastT, the draw calls, and
\* whether requestAnimationFrame(frame) at its end was reached
frame(st, base, camTheta, lastT, now, vp) ==
  FrameAt(st, base, AdvanceAzimuth(camTheta, st.camera.omegaDegPerSec, FrameDt(now, lastT)),
          now, vp)

\* basePoints after frame(now): the item loop reads basePoints.length and
\* basePoints[i] and pushes new objects to items; items.sort sorts items
frameBasePoints_Reversed(base) == [k \in 1..Len(base) |-> base[Len(base) + 1 - k]]

frameBasePoints(base) == base

\* ------------------------------------------------------------- state machine
VARIABLES
  state,        \* the live configuration record
  basePoints,   \* the cached base point set
  camThetaDeg,  \* camera azimuth, thousandths of a degree
  lastT,        \* timestamp of the previous frame, ms
  rafPending,   \* requestAnimationFrame(frame) is outstanding
  calls,        \* the draw calls of the latest frame
  lastOp,       \* "init", "set" or "frame"
  lastObj,      \* index in ParamMenu of the argument of the latest setDyxtenParams
  gapsInClamp,  \* every frame so far came 0..100 ms after the previous timestamp
  sets, frames, \* calls made so far
  probe         \* the latest call of a pure function: its name, arguments, result

vars == <<state, basePoints, camThetaDeg, lastT, rafPending, calls, lastOp,
          lastObj, gapsInClamp, sets, frames, probe>>

\* values of Math.random(), in hundredths
RandU == {0, 99}

\* window.innerWidth, window.innerHeight
Viewports == {<<800, 600>>}

\* ms between a frame's timestamp and the previous one (the first timestamp
\* may lie before the performance.now() read at load)
Gaps == {-16, 100, 250}

RECURSIVE SeqsOf(_, _)
SeqsOf(S, n) == IF n = 0 THEN {<<>>} ELSE {q \o <<v>> : q \in SeqsOf(S, n - 1), v \in S}

\* the parameters the host installs before the first frame
InitParams ==
  << [geometry |-> Obj([lat |-> 2, lon |-> 3])],
     [geometry |-> Obj([lat |-> 2, lon |-> 3]), camera |-> Obj([omegaDegPerSec |-> 1800])],
     [geometry |-> Obj([lat |-> 2, lon |-> 3]), camera |-> Obj([omegaDegPerSec |-> -20])] >>

\* arguments of setDyxtenParams
ParamMenu ==
  << [geometry |-> Obj([topology |-> "fibo_sphere", N |-> Wide(3), phi_g |-> 90]),
      appearance |-> Obj([opacity |-> 50, alphaDepth |-> 50])],
     [geometry |-> Obj([topology |-> "voronoi_seeds", voronoi_N |-> 1])],
     [geometry |-> Obj([topology |-> "concentric_rings", rings_count |-> 1, ring_points |-> 3]),
      system |-> Obj([Nmax |-> 2])],
     [geometry |-> Obj([topology |-> "concentric_rings", rings_count |-> 1, ring_points |-> 3]),
      distribution |-> Obj([sampler |-> "blue_noise", dmin |-> 180])],
     [distribution |-> Obj([sampler |-> "weighted_sampling", dmin_px |-> 1500]),
      appearance |-> Obj([opacity |-> 0])],
     [system |-> Obj([depthSort |-> FALSE]), distribution |-> Obj([dmin_px |-> 5]),
      mask |-> Obj([enabled |-> TRUE, mode |-> "equatorial_band", bandHalfDeg |-> 60,
                    softDeg |-> 45])],
     [appearance |-> Obj([colors |-> JsNumber("5")])],
     [appearance |-> Obj([px |-> -20])],
     [geometry |-> NonObj, bogus |-> Obj([x |-> 1]), camera |-> Obj([fov |-> 500, zoom |-> 2])] >>

\* the number of elements enforceMinDistance shuffles in a rebuild of st
ShuffleLen(st, rnd) ==
  IF st.distribution.dmin > 0
    THEN Len(SamplerInput(SeedPoints(Generate(st, rnd)), st))
    ELSE 0

\* the whole handler window.setDyxtenParams(obj): merge, then rebuildGeometry()
setDyxtenParams_NoRebuild(st, base, obj, rnd, js) ==
  [state |-> MergeParams(st, obj), basePoints |-> base]

setDyxtenParams(st, base, obj, rnd, js) ==
  LET merged == MergeParams(st, obj)
  IN  [state |-> merged, basePoints |-> rebuildGeometry(merged, rnd, js)]

\* no pure function called yet
NoProbe == [fn |-> "none"]

Init ==
  /\ \E i \in 1..Len(InitParams) :
       LET r == setDyxtenParams(DefaultState, <<>>, InitParams[i], <<>>, <<>>)
       IN  state = r.state /\ basePoints = r.basePoints
  /\ camThetaDeg = 0
  /\ lastT = 0
  /\ rafPending = TRUE
  /\ calls = <<>>
  /\ lastOp = "init"
  /\ lastObj = 0
  /\ gapsInClamp = TRUE
  /\ sets = 0
  /\ frames = 0
  /\ probe = NoProbe

\* a call window.setDyxtenParams(obj), obj being entry i of the menu in use
CallSetDyxtenParams(obj, i) ==
  LET merged == MergeParams(state, obj)
  IN  \E rnd \in SeqsOf(RandU, RandomDraws(merged)) :
        \E js \in ShuffleDraws(ShuffleLen(merged, rnd)) :
          LET r == setDyxtenParams(state, basePoints, obj, rnd, js)
          IN  /\ state' = r.state
              /\ basePoints' = r.basePoints
              /\ lastOp' = "set"
              /\ lastObj' = i
              /\ sets' = sets + 1
              /\ UNCHANGED <<camThetaDeg, lastT, rafPending, calls, gapsInClamp, frames,
                             probe>>

SetDyxtenParams(i) == CallSetDyxtenParams(ParamMenu[i], i)

\* the requestAnimationFrame callback, gap ms after the previous timestamp
Frame(gap, vp) ==
  /\ rafPending
  /\ LET r == frame(state, basePoints, camThetaDeg, lastT, lastT + gap, vp)
     IN  /\ camThetaDeg' = r.camThetaDeg
         /\ lastT' = r.lastT
         /\ calls' = r.calls
         /\ rafPending' = r.requested
  /\ gapsInClamp' = (gapsInClamp /\ gap >= 0 /\ gap <= 100)
  /\ basePoints' = frameBasePoints(basePoints)
  /\ lastOp' = "frame"
  /\ frames' = frames + 1
  /\ UNCHANGED <<state, lastObj, sets, probe>>

Next ==
  \/ \E i \in 1..Len(ParamMenu) : sets < MaxSets /\ SetDyxtenParams(i)
  \/ \E gap \in Gaps, vp \in Viewports : frames < MaxFrames /\ Frame(gap, vp)

Spec == Init /\ [][Next]_vars

\* ---------------------------------------------- the point count of a generator
\* topologies whose count is N, with the fixed minimum of each
CountTopologies ==
  << [topology |-> "fibo_sphere", min |-> 1],
     [topology |-> "disk_phyllotaxis", min |-> 1],
     [topology |-> "lissajous_disk", min |-> 2],
     [topology |-> "torus_knot", min |-> 50],
     [topology |-> "helix", min |-> 10] >>

\* requested N: 0, -2, 2, 100000, 2^31, 2^32 + 2
CountValues == << <<0, 0>>, Wide(-2), <<0, 2>>, Wide(100000), <<32768, 0>>, <<65536, 2>> >>

\* system.Nmax
CountCaps == <<1, 3>>

CountMenu ==
  [i \in 1..(Len(CountTopologies) * Len(CountValues) * Len(CountCaps)) |->
     [geometry |->
        Obj([topology |-> CountTopologies[((i - 1) % Len(CountTopologies)) + 1].topology,
             N |-> CountValues[(((i - 1) \div Len(CountTopologies)) % Len(CountValues)) + 1]]),
      system |->
        Obj([Nmax |-> CountCaps[((i - 1) \div (Len(CountTopologies) * Len(CountValues))) + 1]])]]

\* topology names that are no key of the generators table
UnknownNames == <<"no_such_topology", "constructor", "toString">>

\* the count requests, then the requests for an unknown topology
GeometryMenu ==
  CountMenu \o [i \in 1..Len(UnknownNames) |->
                  [geometry |-> Obj([topology |-> UnknownNames[i]])]]

SetCountParams(i) == CallSetDyxtenParams(GeometryMenu[i], i)

NextCount ==
  \/ \E i \in 1..Len(GeometryMenu) : sets < MaxSets /\ SetCountParams(i)
  \/ \E gap \in Gaps, vp \in Viewports : frames < MaxFrames /\ Frame(gap, vp)

SpecCount == Init /\ [][NextCount]_vars

\* ------------------------------------------------------ free-form expressions
\* What new Function(..., "with(Math){return (" + expr + ");}") and a call of
\* the compiled function do, for the expression strings used here:
\* new Function raises SyntaxError
ExprSyntaxErrors == {"1+", "sphere("}

\* compiles; the call raises ReferenceError
ExprReferenceErrors == {"nosuch(1)"}

\* names sdfEvaluator declares: a ReferenceError in evalExpression
ExprSdfOnly == {"sphere(1.0)"}

\* compiles; the call returns Infinity or NaN
ExprNonFinite == {"1/0", "0/0"}

\* the value of a constant expression, in hundredths
ExprConstant(expr) ==
  CASE expr = "0" -> 0
    [] expr = "0.5" -> 50
    [] expr = "1" -> 100

\* evalExpression(expr, vars): the value returned, in hundredths, and whether
\* console.warn was called
evalExpression(expr) ==
  IF expr \in {"", " "} THEN [value |-> 100, warned |-> FALSE]
  ELSE IF expr \in ExprSyntaxErrors \cup ExprReferenceErrors \cup ExprSdfOnly
    THEN [value |-> 0, warned |-> TRUE]
  ELSE IF expr \in ExprNonFinite THEN [value |-> 0, warned |-> FALSE]
  ELSE [value |-> ExprConstant(expr), warned |-> FALSE]

\* ------------------------------------------------------ rejection samplers
\* the successive values of Math.random(), in hundredths, repeated cyclically
Streams == << <<0>>, <<50>>, <<99>>, <<0, 50, 50>>, <<50, 99, 0, 50>>, <<99, 0>> >>

\* the n-th value (from 0) of stream s
MathRandom(s, n) == Streams[s][(n % Len(Streams[s])) + 1]

\* the state of a sampling loop: the points pushed, the attempts made, the
\* random values consumed, the warnings logged, an exception raised
LoopStart(n, warnings) ==
  [n |-> n, out |-> <<>>, threw |-> FALSE, warnings |-> warnings, attempts |-> 0]

LoopNext(L, pts, used, warned) ==
  [n |-> L.n + used, out |-> L.out \o pts, threw |-> FALSE,
   warnings |-> L.warnings + (IF warned THEN 1 ELSE 0), attempts |-> L.attempts + 1]

\* the pass raised an exception
LoopThrow(L, used) ==
  [n |-> L.n + used, out |-> L.out, threw |-> TRUE, warnings |-> L.warnings,
   attempts |-> L.attempts + 1]

\* while (out.length < count && attempts < maxAttempts)
LoopContinues_NoCountTest(len, count, attempts, maxAttempts) == attempts < maxAttempts

LoopContinues(len, count, attempts, maxAttempts) ==
  len < count /\ attempts < maxAttempts

\* a point of the disk of radius r at angle theta
DiskPt(r, theta) == Pt(MulC(r, CosDeg(theta)), 0, MulC(r, SinDeg(theta)))

\* one pass of the loop of gen_density_warp, e the result of evalExpression
DensityStep(L, g, s, e) ==
  IF Max(0, e.value) = 0 THEN LoopNext(L, <<>>, 1, e.warned)
  ELSE IF MathRandom(s, L.n + 1) > Min(100, Max(0, e.value))
    THEN LoopNext(L, <<>>, 2, e.warned)
  ELSE LoopNext(L, <<DiskPt(MulC(g.R, SqrtC(100 * MathRandom(s, L.n))),
                           QuoT(360 * MathRandom(s, L.n + 2), 100))>>, 3, e.warned)

\* one pass of the loop of gen_poisson_disk, p the candidate point
PoissonStep(L, p, minDist) ==
  IF \A k \in 1..Len(L.out) :
       (p.x - L.out[k].x) * (p.x - L.out[k].x) + (p.z - L.out[k].z) * (p.z - L.out[k].z)
         >= minDist * minDist
    THEN LoopNext(L, <<p>>, 2, FALSE)
    ELSE LoopNext(L, <<>>, 2, FALSE)

\* a point of the sphere of radius R at polar angle theta, azimuth phi
SpherePt(R, theta, phi) ==
  Pt(MulC(MulC(R, SinDeg(theta)), CosDeg(phi)), MulC(R, CosDeg(theta)),
     MulC(MulC(R, SinDeg(theta)), SinDeg(phi)))

\* one pass of the loop of gen_weighted_sphere, e the result of evalExpression
WeightedStep(L, g, s, e, maxW) ==
  IF MathRandom(s, L.n + 2) > Min(100, Max(0, QuoT(100 * Max(0, e.value), maxW)))
    THEN LoopNext(L, <<>>, 3, e.warned)
  ELSE LoopNext(L, <<SpherePt(g.R, QuoT(180 * MathRandom(s, L.n), 100),
                             QuoT(360 * MathRandom(s, L.n + 1), 100))>>, 3, e.warned)

\* the function sdfEvaluator compiles, called at (x, y, z): its value in
\* hundredths (NaN for Infinity or NaN too)
sdfValue(expr, x, y, z) ==
  IF expr = "sphere(1.0)" THEN SqrtC(x * x + y * y + z * z) - 100
  ELSE IF expr \in ExprNonFinite THEN NaN
  ELSE ExprConstant(expr)

\* (Math.random()*2-1) * scale
ImplicitCoord(s, n, scale) == MulC(2 * MathRandom(s, n) - 100, scale)

\* eps = 0.02 * Math.max(1e-3, scale), threshold being undefined
ImplicitEps(scale) == QuoT(2 * Max(0, scale), 100)

\* one pass of the loop of sampleImplicit: evalFn raises, or its value decides
ImplicitStep(L, p, expr, eps) ==
  IF expr \in ExprReferenceErrors THEN LoopThrow(L, 3)
  ELSE IF sdfValue(expr, p.x, p.y, p.z) # NaN /\ Abs(sdfValue(expr, p.x, p.y, p.z)) < eps
    THEN LoopNext(L, <<p>>, 3, FALSE)
  ELSE LoopNext(L, <<>>, 3, FALSE)

\* g.df_ops || "sphere(1.0)"
DfExpr(g) == IF g.df_ops = "" THEN "sphere(1.0)" ELSE g.df_ops

\* maxW of gen_weighted_sphere: the largest sampled weight, || 1
SampledMaxW(g) == OrElse(Max(0, evalExpression(g.weight_map).value), 100)

\* one pass of the loop of the sampler fn
SamplerStep(fn, L, g, s) ==
  CASE fn = "gen_density_warp" -> DensityStep(L, g, s, evalExpression(g.density_pdf))
    [] fn = "gen_poisson_disk" ->
         PoissonStep(L, DiskPt(MulC(g.R, SqrtC(100 * MathRandom(s, L.n))),
                               QuoT(360 * MathRandom(s, L.n + 1), 100)),
                     MulC(Max(0, g.poisson_dmin), g.R))
    [] fn = "gen_weighted_sphere" ->
         WeightedStep(L, g, s, evalExpression(g.weight_map), SampledMaxW(g))
    [] fn = "sampleImplicit" ->
         ImplicitStep(L, Pt(ImplicitCoord(s, L.n, OrElse(g.R, 100)),
                            ImplicitCoord(s, L.n + 1, OrElse(g.R, 100)),
                            ImplicitCoord(s, L.n + 2, OrElse(g.R, 100))),
                      DfExpr(g), ImplicitEps(OrElse(g.R, 100)))

\* the sampling loop, evaluated sixteen passes at a time; an exception ends it
RECURSIVE SamplerPasses(_, _, _, _, _, _, _)
SamplerPasses(fn, L, count, maxAttempts, g, s, k) ==
  IF k = 0 \/ L.threw \/ ~LoopContinues(Len(L.out), count, L.attempts, maxAttempts) THEN L
  ELSE SamplerPasses(fn, SamplerStep(fn, L, g, s), count, maxAttempts, g, s, k - 1)

RECURSIVE SamplerLoop(_, _, _, _, _, _)
SamplerLoop(fn, L, count, maxAttempts, g, s) ==
  IF L.threw \/ ~LoopContinues(Len(L.out), count, L.attempts, maxAttempts) THEN L
  ELSE SamplerLoop(fn, SamplerPasses(fn, L, count, maxAttempts, g, s, 16),
                   count, maxAttempts, g, s)

gen_density_warp(g, st, s) ==
  SamplerLoop("gen_density_warp", LoopStart(0, 0), clampCount(Max(1, ToInt32(g.N)), st),
              20 * clampCount(Max(1, ToInt32(g.N)), st), g, s)

gen_poisson_disk(g, st, s) ==
  SamplerLoop("gen_poisson_disk", LoopStart(0, 0), clampCount(Max(1, ToInt32(g.N)), st),
              50 * clampCount(Max(1, ToInt32(g.N)), st), g, s)

\* the number of weight samples gen_weighted_sphere takes to find maxW
WeightSamples == 200

\* the weight samples first (two random values and one evaluation each), then
\* the loop
gen_weighted_sphere(g, st, s) ==
  SamplerLoop("gen_weighted_sphere",
              LoopStart(2 * WeightSamples,
                        IF evalExpression(g.weight_map).warned THEN WeightSamples ELSE 0),
              clampCount(Max(1, ToInt32(g.N)), st),
              40 * clampCount(Max(1, ToInt32(g.N)), st), g, s)

\* sampleImplicit(count, scale, evalFn), scale and the compiled df_ops taken from g
sampleImplicit(count, g, s) ==
  SamplerLoop("sampleImplicit", LoopStart(0, 0), count, 50 * count, g, s)

\* a SyntaxError of sdfEvaluator is caught: console.warn, return []
gen_distance_field(g, st, s) ==
  IF DfExpr(g) \in ExprSyntaxErrors THEN LoopStart(0, 1)
  ELSE sampleImplicit(clampCount(Max(200, ToInt32(g.N)), st), g, s)

\* ----------------------------------------------------------- gen_geodesic
\* normScale(v, R) = [R*v[0]/n, R*v[1]/n, R*v[2]/n], n = Math.hypot(v) || 1
normScale(v, R) ==
  <<QuoT(R * v[1], OrElse(Hypot3C(v[1], v[2], v[3]), 100)),
    QuoT(R * v[2], OrElse(Hypot3C(v[1], v[2], v[3]), 100)),
    QuoT(R * v[3], OrElse(Hypot3C(v[1], v[2], v[3]), 100))>>

\* the twelve vertices of the icosahedron, t = (1 + Math.sqrt(5)) / 2 = 1.62
IcoVerts(R) ==
  LET raw == << <<-100, 162, 0>>, <<100, 162, 0>>, <<-100, -162, 0>>, <<100, -162, 0>>,
                <<0, -100, 162>>, <<0, 100, 162>>, <<0, -100, -162>>, <<0, 100, -162>>,
                <<162, 0, -100>>, <<162, 0, 100>>, <<-162, 0, -100>>, <<-162, 0, 100>> >>
  IN  [k \in 1..12 |-> normScale(raw[k], R)]

\* its twenty faces, vertex numbers from 0
IcoFaces ==
  << <<0, 11, 5>>, <<0, 5, 1>>, <<0, 1, 7>>, <<0, 7, 10>>, <<0, 10, 11>>,
     <<1, 5, 9>>, <<5, 11, 4>>, <<11, 10, 2>>, <<10, 7, 6>>, <<7, 1, 8>>,
     <<3, 9, 4>>, <<3, 4, 2>>, <<3, 2, 6>>, <<3, 6, 8>>, <<3, 8, 9>>,
     <<4, 9, 5>>, <<2, 4, 11>>, <<6, 2, 10>>, <<8, 6, 7>>, <<9, 8, 1>> >>

\* key = a<b ? `${a}-${b}` : `${b}-${a}`
EdgeKey_Directed(a, b) == <<a, b>>

EdgeKey(a, b) == IF a < b THEN <<a, b>> ELSE <<b, a>>

\* The subdivision state G = <<verts, midpointCache, made>>: the vertex list,
\* the cache (key -> vertex number), and the keys a vertex was pushed for.
\* mid(a,b): the vertex number returned
MidIndex(G, a, b) ==
  IF EdgeKey(a, b) \in DOMAIN G[2] THEN G[2][EdgeKey(a, b)] ELSE Len(G[1])

\* mid(a,b): the state it leaves
MidState(G, a, b, R) ==
  IF EdgeKey(a, b) \in DOMAIN G[2] THEN G
  ELSE <<Append(G[1], normScale(<<QuoT(G[1][a + 1][1] + G[1][b + 1][1], 2),
                                  QuoT(G[1][a + 1][2] + G[1][b + 1][2], 2),
                                  QuoT(G[1][a + 1][3] + G[1][b + 1][3], 2)>>, R)),
         G[2] @@ (EdgeKey(a, b) :> Len(G[1])),
         Append(G[3], EdgeKey(a, b))>>

\* nf.push([a,ab,ca],[b,bc,ab],[c,ca,bc],[ab,bc,ca])
FaceSplit(f, ab, bc, ca) ==
  << <<f[1], ab, ca>>, <<f[2], bc, ab>>, <<f[3], ca, bc>>, <<ab, bc, ca>> >>

\* one face of a pass: ab = mid(a,b), bc = mid(b,c), ca = mid(c,a) in that
\* order; P = <<G, nf>>, nf holding four faces for each face done
SplitFace(G, Gab, Gbc, f, nf, R) ==
  <<MidState(Gbc, f[3], f[1], R),
    nf \o FaceSplit(f, MidIndex(G, f[1], f[2]), MidIndex(Gab, f[2], f[3]),
                    MidIndex(Gbc, f[3], f[1]))>>

SplitNext(G, Gab, f, nf, R) == SplitFace(G, Gab, MidState(Gab, f[2], f[3], R), f, nf, R)

RECURSIVE SplitFaces(_, _, _, _)
SplitFaces(P, faces, k, R) ==
  IF k > Len(faces) \/ Len(P[2]) # 4 * (k - 1) THEN P
  ELSE SplitFaces(SplitNext(P[1], MidState(P[1], faces[k][1], faces[k][2], R), faces[k],
                            P[2], R),
                  faces, k + 1, R)

\* for(let l=0;l<(level|0);l++){ const nf=[]; midpointCache.clear(); ... faces = nf; }
\* S = <<verts, faces, keys made in each pass>>
RECURSIVE SubdivideFrom(_, _, _, _)
SubdivideFrom(S, l, level, R) ==
  IF l >= level THEN S
  ELSE LET P == SplitFaces(<< <<S[1], <<>>, <<>> >>, <<>> >>, S[2], 1, R)
       IN  SubdivideFrom(<<P[1][1], P[2], Append(S[3], P[1][3])>>, l + 1, level, R)

\* one output point per face: the centroid, scaled to radius R
FaceCentre(verts, f, R) ==
  normScale(<<QuoT(verts[f[1] + 1][1] + verts[f[2] + 1][1] + verts[f[3] + 1][1], 3),
              QuoT(verts[f[1] + 1][2] + verts[f[2] + 1][2] + verts[f[3] + 1][2], 3),
              QuoT(verts[f[1] + 1][3] + verts[f[2] + 1][3] + verts[f[3] + 1][3], 3)>>, R)

\* gen_geodesic(R, level): <<out, verts, keys made in each pass>>
GeodesicOut(S, R) ==
  <<[k \in 1..Len(S[2]) |-> Pt(FaceCentre(S[1], S[2][k], R)[1],
                               FaceCentre(S[1], S[2][k], R)[2],
                               FaceCentre(S[1], S[2][k], R)[3])],
    S[1], S[3]>>

gen_geodesic(R, level) ==
  GeodesicOut(SubdivideFrom(<<IcoVerts(R), IcoFaces, <<>> >>, 0, level, R), R)

\* ------------------------------------------------------------------ colours
\* A string is the sequence of its characters. The digits toString(16) and
\* toUpperCase give, and their lower-case forms:
HexUpper == <<"0", "1", "2", "3", "4", "5", "6", "7", "8", "9", "A", "B", "C", "D", "E", "F">>
HexLower == <<"0", "1", "2", "3", "4", "5", "6", "7", "8", "9", "a", "b", "c", "d", "e", "f">>

\* the value of a hexadecimal digit, -1 for any other character
HexVal(ch) ==
  IF \E k \in 1..16 : HexUpper[k] = ch THEN (CHOOSE k \in 1..16 : HexUpper[k] = ch) - 1
  ELSE IF \E k \in 1..16 : HexLower[k] = ch THEN (CHOOSE k \in 1..16 : HexLower[k] = ch) - 1
  ELSE -1

\* hx.replace("#", ""): the first "#" is removed
RemoveHash(hx) ==
  IF \E k \in 1..Len(hx) : hx[k] = "#"
    THEN SubSeq(hx, 1, (CHOOSE k \in 1..Len(hx) : hx[k] = "#" /\ \A j \in 1..(k - 1) : hx[j] # "#") - 1)
         \o SubSeq(hx, (CHOOSE k \in 1..Len(hx) : hx[k] = "#" /\ \A j \in 1..(k - 1) : hx[j] # "#") + 1,
                   Len(hx))
    ELSE hx

\* parseInt(x, 16): the leading hexadecimal digits, NaN when there is none
RECURSIVE HexFold(_, _, _)
HexFold(x, k, acc) ==
  IF k > Len(x) \/ HexVal(x[k]) < 0 THEN acc ELSE HexFold(x, k + 1, 16 * acc + HexVal(x[k]))

ParseInt16(x) == IF Len(x) = 0 \/ HexVal(x[1]) < 0 THEN NaN ELSE HexFold(x, 1, 0)

\* {r:(n>>16)&255, g:(n>>8)&255, b:n&255} as <<r, g, b>>; NaN >> 16 is 0
RgbOf(n) == IF n = NaN THEN <<0, 0, 0>> ELSE <<(n \div 65536) % 256, (n \div 256) % 256, n % 256>>

hex2rgb(hx) == RgbOf(ParseInt16(RemoveHash(hx)))

\* the unit of h, s, l and of a gradient position: one ten-thousandth
Unit == 10000

\* h of rgb2hsl, the channels being integers 0..255, d = max - min > 0;
\* switch(max) takes the first of r, g, b that equals max
HueOf(r, g, b, mx, d) ==
  QuoT(IF mx = r THEN QuoT(Unit * (g - b), d) + (IF g < b THEN 6 * Unit ELSE 0)
       ELSE IF mx = g THEN QuoT(Unit * (b - r), d) + 2 * Unit
       ELSE QuoT(Unit * (r - g), d) + 4 * Unit, 6)

\* rgb2hsl with max and min given: <<h, s, l>>
HslOf(r, g, b, mx, mn) ==
  IF mx = mn THEN <<0, 0, QuoT(Unit * (mx + mn), 510)>>
  ELSE <<HueOf(r, g, b, mx, mx - mn),
         IF mx + mn > 255 THEN QuoT(Unit * (mx - mn), 510 - mx - mn)
         ELSE QuoT(Unit * (mx - mn), mx + mn),
         QuoT(Unit * (mx + mn), 510)>>

rgb2hsl(c) == HslOf(c[1], c[2], c[3], Max(c[1], Max(c[2], c[3])), Min(c[1], Min(c[2], c[3])))

\* f(p, q, t) of hsl2rgb, t already wrapped into [0, 1]
HueRamp(p, q, t) ==
  IF 6 * t < Unit THEN p + QuoT((q - p) * 6 * t, Unit)
  ELSE IF 2 * t < Unit THEN q
  ELSE IF 3 * t < 2 * Unit THEN p + QuoT((q - p) * (QuoT(2 * Unit, 3) - t) * 6, Unit)
  ELSE p

\* if(t<0)t+=1; if(t>1)t-=1
HueWrap(t) == IF t < 0 THEN t + Unit ELSE IF t > Unit THEN t - Unit ELSE t

\* Math.round(v*255)
Channel(v) == QuoT(255 * v + (Unit \div 2), Unit)

\* hsl2rgb with q and p given
RgbFrom(h, p, q) ==
  <<Channel(HueRamp(p, q, HueWrap(h + QuoT(Unit, 3)))),
    Channel(HueRamp(p, q, HueWrap(h))),
    Channel(HueRamp(p, q, HueWrap(h - QuoT(Unit, 3))))>>

\* q = l < 0.5 ? l*(1+s) : l+s-l*s
HslQ(s, l) == IF 2 * l < Unit THEN l + QuoT(l * s, Unit) ELSE l + s - QuoT(l * s, Unit)

hsl2rgb(c) ==
  IF c[2] = 0 THEN <<Channel(c[3]), Channel(c[3]), Channel(c[3])>>
  ELSE RgbFrom(c[1], 2 * c[3] - HslQ(c[2], c[3]), HslQ(c[2], c[3]))

\* "#" + ((1<<24)+(r<<16)+(g<<8)+b).toString(16).slice(1).toUpperCase()
rgb2hex(c) ==
  <<"#", HexUpper[(c[1] \div 16) + 1], HexUpper[(c[1] % 16) + 1],
         HexUpper[(c[2] \div 16) + 1], HexUpper[(c[2] % 16) + 1],
         HexUpper[(c[3] \div 16) + 1], HexUpper[(c[3] % 16) + 1]>>

\* a*(1-t) + b*t
Lerp(a, b, t) == QuoT(a * (Unit - t), Unit) + QuoT(b * t, Unit)

\* the interpolation of mix2, in HSL
MixHsl(ah, bh, t) == <<Lerp(ah[1], bh[1], t), Lerp(ah[2], bh[2], t), Lerp(ah[3], bh[3], t)>>

mix2(c1, c2, t) == rgb2hex(hsl2rgb(MixHsl(rgb2hsl(hex2rgb(c1)), rgb2hsl(hex2rgb(c2)), t)))

\* a stop {c, t} of a gradient
Stop(c, t) == [c |-> c, t |-> t]

\* the comparisons of positions: false when one side is NaN
PosLess(a, b) == a # NaN /\ b # NaN /\ a < b
PosLeq(a, b) == a # NaN /\ b # NaN /\ a <= b

\* the loop of sampleGradient from segment i on (t clamped)
RECURSIVE SegmentFrom(_, _, _)
SegmentFrom(stops, t, i) ==
  IF i > Len(stops) - 1 THEN stops[Len(stops)].c
  ELSE IF PosLeq(stops[i].t, t) /\ PosLeq(t, stops[i + 1].t)
    THEN mix2(stops[i].c, stops[i + 1].c,
              IF stops[i + 1].t - stops[i].t <= 0 THEN 0
              ELSE QuoT(Unit * (t - stops[i].t), stops[i + 1].t - stops[i].t))
  ELSE SegmentFrom(stops, t, i + 1)

sampleGradient(stops, t) == SegmentFrom(stops, Max(0, Min(Unit, t)), 1)

\* ---------------------------------------------------------------- parseStops
\* A gradient string is the list of its comma-separated entries, trimmed and
\* not empty; an entry is <<colour, text after "@">>, the text being "" when
\* there is no "@" or nothing after it.
\* parseFloat of the position texts used
ParseFloat(pos) ==
  CASE pos = "0" -> 0
    [] pos = "0.25" -> 2500
    [] pos = "0.5" -> 5000
    [] pos = "1" -> Unit
    [] pos = "2" -> 2 * Unit
    [] pos = "-1" -> -Unit
    [] pos = "x" -> NaN

\* the position of an entry without one
Null == NaN - 1

\* t = (pos===undefined || pos==="") ? null : Math.max(0, Math.min(1, parseFloat(pos)))
RawT(pos) ==
  IF pos = "" THEN Null
  ELSE IF ParseFloat(pos) = NaN THEN NaN
  ELSE Max(0, Min(Unit, ParseFloat(pos)))

\* the number of entries without a position among the first k
FreeUpTo(entries, k) == Cardinality({j \in 1..k : entries[j][2] = ""})

\* free>1 ? (idx/(free-1)) : (idx?1:0)
SpreadT(idx, free) ==
  IF free > 1 THEN QuoT(Unit * idx, free - 1) ELSE IF idx # 0 THEN Unit ELSE 0

\* withPos before the sort
WithPos(entries) ==
  [k \in 1..Len(entries) |->
     Stop(entries[k][1],
          IF RawT(entries[k][2]) = Null
            THEN SpreadT(FreeUpTo(entries, k - 1), FreeUpTo(entries, Len(entries)))
            ELSE RawT(entries[k][2]))]

\* withPos.sort((a,b)=>a.t-b.t): stable; a NaN difference counts as equal
RECURSIVE InsertStop(_, _)
InsertStop(sorted, x) ==
  IF sorted = <<>> THEN <<x>>
  ELSE IF ~PosLess(x.t, sorted[Len(sorted)].t) THEN Append(sorted, x)
  ELSE Append(InsertStop(SubSeq(sorted, 1, Len(sorted) - 1), x), sorted[Len(sorted)])

RECURSIVE SortStopsFrom(_, _, _)
SortStopsFrom(stops, k, sorted) ==
  IF k > Len(stops) THEN sorted ELSE SortStopsFrom(stops, k + 1, InsertStop(sorted, stops[k]))

\* if (withPos[0].t>0) unshift; if (last.t<1) push
CoverEnds(w) ==
  (IF PosLess(0, w[1].t) THEN <<Stop(w[1].c, 0)>> ELSE <<>>)
    \o w
    \o (IF PosLess(w[Len(w)].t, Unit) THEN <<Stop(w[Len(w)].c, Unit)>> ELSE <<>>)

\* "#00C8FF" and "#FFFFFF"
DefaultStops ==
  <<Stop(<<"#", "0", "0", "C", "8", "F", "F">>, 0), Stop(<<"#", "F", "F", "F", "F", "F", "F">>, Unit)>>

parseStops(entries) ==
  IF Len(entries) = 0 THEN DefaultStops
  ELSE CoverEnds(SortStopsFrom(WithPos(entries), 1, <<>>))

\* ----------------------------------------------------------------- pickColor
\* h %= 360; if (h < 0) h += 360   (hundredths of a degree)
wrapHue(h) == IF JsRem(h, 36000) < 0 THEN JsRem(h, 36000) + 36000 ELSE JsRem(h, 36000)

\* the angle of speed * now * 0.001 radians, in degrees (mrad = speed * now)
RadDeg(mrad) == (mrad * 36000 + 314159) \div 628318

\* hslFromParams(ap, factor, now, {includeTime, timeWeight}): the hue of the
\* `hsl(${hue},75%,70%)` it returns, in hundredths of a degree; h0, dh in
\* degrees, wh in rad/s, factor and timeWeight in hundredths, now in ms
HueTemporal(dh, wh, now, includeTime, timeWeight) ==
  IF includeTime /\ wh # 0 THEN QuoT(dh * timeWeight * SinDeg(RadDeg(wh * now)), 100) ELSE 0

hslFromParams(ap, factor, now, includeTime, timeWeight) ==
  <<"hsl", wrapHue(100 * ap.h0 + ap.dh * Max(-100, Min(100, factor))
                   + HueTemporal(ap.dh, ap.wh, now, includeTime, timeWeight))>>

\* l = clamp01((canvas.height/2 - p.sy) / Math.max(1, canvas.height)); factor = l*2 - 1
DirectionalFactor(sy, vp) == 2 * clamp01(QuoT(100 * (5 * vp[2] - sy), 10 * Max(1, vp[2]))) - 100

\* t = 1 - sph.theta / Math.PI; factor = t*2 - 1
LatFactor(p) == 100 - QuoT(200 * SphTheta(p.X, p.Y, p.Z), 180)

\* t = sph.phi / (2*Math.PI); factor = t*2 - 1
LonFactor(p) == QuoT(200 * SphPhi(p.X, p.Z), 360) - 100

\* palette = [stops[0].c, (stops[1]||stops[0]).c]; return palette[p.i % palette.length]
EveryOther(stops, i) == <<stops[1].c, stops[Min(Len(stops), 2)].c>>[(i % 2) + 1]

\* pickColor(p, now) for the palettes that read the stop list by index or
\* compute a hue; ap = state.appearance, stops = parseStops(ap.colors),
\* vp = the canvas size
pickColor(p, now, ap, stops, vp) ==
  CASE ap.palette = "uniform" -> ap.color
    [] ap.palette = "every_other" -> EveryOther(stops, p.i)
    [] ap.palette = "every_kth" ->
         stops[((p.i \div Max(1, ap.paletteK)) % Len(stops)) + 1].c
    [] ap.palette = "stripe_longitude" ->
         stops[(((p.i % 128) \div 16) % Len(stops)) + 1].c
    [] ap.palette = "hsl_time" -> hslFromParams(ap, 0, now, TRUE, 100)
    [] ap.palette = "directional" ->
         hslFromParams(ap, DirectionalFactor(p.sy, vp), now, TRUE, 50)
    [] ap.palette = "by_lat" -> hslFromParams(ap, LatFactor(p), now, TRUE, 50)
    [] ap.palette = "by_lon" -> hslFromParams(ap, LonFactor(p), now, TRUE, 50)
    [] OTHER -> ap.color

\* ------------------------------------------------- calls of the pure functions
\* system.Nmax
PureCaps == {1, 2, 3}

\* geometry.N
PureCounts == <<Wide(1), Wide(2), Wide(4096)>>

\* density_pdf and weight_map
ExprMenu == <<"", "0", "0.5", "1", "1/0", "0/0", "nosuch(1)", "1+">>

\* df_ops
DfMenu == <<"", "sphere(1.0)", "0", "1", "1/0", "nosuch(1)", "sphere(">>

\* poisson_dmin
PoissonDmins == {0, 5, 150}

\* the default state with the given geometry fields and system.Nmax
PureState(fields, cap) ==
  MergeParams(DefaultState, [geometry |-> Obj(fields), system |-> Obj([Nmax |-> cap])])

\* the record of a call: the function, its arguments, its result
Probe(fn, arg, res) == [fn |-> fn, arg |-> arg, res |-> res]

\* the functions are pure: a behaviour makes one call
SetProbe(p) ==
  /\ probe.fn = "none"
  /\ probe' = p
  /\ UNCHANGED <<state, basePoints, camThetaDeg, lastT, rafPending, calls, lastOp,
                 lastObj, gapsInClamp, sets, frames>>

CallEvalExpression(e) ==
  SetProbe(Probe("evalExpression", [expr |-> ExprMenu[e]], evalExpression(ExprMenu[e])))

\* the argument record of a generator call; count is clampCount(Math.max(m, g.N|0))
GenArg(expr, m, st, s) ==
  [count |-> clampCount(Max(m, ToInt32(st.geometry.N)), st), expr |-> expr, stream |-> s]

CallGenDensityWarp(e, c, cap, s) ==
  LET st == PureState([density_pdf |-> ExprMenu[e], N |-> PureCounts[c]], cap)
  IN  SetProbe(Probe("gen_density_warp", GenArg(ExprMenu[e], 1, st, s),
                     gen_density_warp(st.geometry, st, s)))

CallGenPoissonDisk(d, c, cap, s) ==
  LET st == PureState([poisson_dmin |-> d, N |-> PureCounts[c]], cap)
  IN  SetProbe(Probe("gen_poisson_disk", GenArg("", 1, st, s),
                     gen_poisson_disk(st.geometry, st, s)))

CallGenWeightedSphere(e, c, cap, s) ==
  LET st == PureState([weight_map |-> ExprMenu[e], N |-> PureCounts[c]], cap)
  IN  SetProbe(Probe("gen_weighted_sphere", GenArg(ExprMenu[e], 1, st, s),
                     gen_weighted_sphere(st.geometry, st, s)))

CallGenDistanceField(e, cap, s) ==
  LET st == PureState([df_ops |-> DfMenu[e], N |-> Wide(4096)], cap)
  IN  SetProbe(Probe("gen_distance_field", GenArg(DfExpr(st.geometry), 200, st, s),
                     gen_distance_field(st.geometry, st, s)))

\* mask.mode
MaskModes == <<"none", "north_cap", "south_cap", "equatorial_band", "longitudinal_band">>

\* the angles of the mask section
MaskAngles ==
  << [angleDeg |-> 30, bandHalfDeg |-> 20, lonCenterDeg |-> 0, lonWidthDeg |-> 30,
      softDeg |-> 10],
     [angleDeg |-> 0, bandHalfDeg |-> 0, lonCenterDeg |-> 350, lonWidthDeg |-> 0,
      softDeg |-> 0],
     [angleDeg |-> 90, bandHalfDeg |-> 60, lonCenterDeg |-> 180, lonWidthDeg |-> 120,
      softDeg |-> 45] >>

\* positions of a point: the poles, the equator, in between, the origin
PurePoints == << <<0, 100, 0>>, <<0, -100, 0>>, <<100, 0, 0>>, <<0, 0, 100>>,
                 <<-71, 71, 0>>, <<0, 0, 0>> >>

\* maskWeight(p) under a mask section with mode MaskModes[m], angles MaskAngles[a]
CallMaskWeight(m, enabled, invert, a, pt) ==
  LET st == MergeParams(DefaultState,
                        [mask |-> Obj(ObjectAssign(MaskAngles[a],
                                                   [mode |-> MaskModes[m], enabled |-> enabled,
                                                    invert |-> invert]))])
  IN  SetProbe(Probe("maskWeight", <<st.mask, PurePoints[pt]>>,
                     maskWeight([X |-> PurePoints[pt][1], Y |-> PurePoints[pt][2],
                                 Z |-> PurePoints[pt][3]], st)))

\* distribution.maskMode, maskSoftness, maskAnimate
DistMaskModes == <<"none", "north_cap", "band", "no_such_mode">>
MaskSoftnesses == {0, 20, 100}
MaskAnimates == {0, 100}

\* the time of a frame, ms
PureTimes == {0, 250}

CallComputeMaskWeight(m, soft, speed, now, pt) ==
  LET st == MergeParams(DefaultState,
                        [distribution |-> Obj([maskMode |-> DistMaskModes[m],
                                               maskSoftness |-> soft, maskAnimate |-> speed])])
  IN  SetProbe(Probe("computeMaskWeight", <<st.distribution, PurePoints[pt], now>>,
                     computeMaskWeight(Pt(PurePoints[pt][1], PurePoints[pt][2],
                                          PurePoints[pt][3]), st, now)))

\* colour strings: upper-case, lower-case and three-digit hexadecimal
ColCyan == <<"#", "0", "0", "C", "8", "F", "F">>
ColWhite == <<"#", "F", "F", "F", "F", "F", "F">>
ColRed == <<"#", "F", "F", "0", "0", "0", "0">>
ColGreen == <<"#", "0", "0", "F", "F", "0", "0">>
ColBlue == <<"#", "0", "0", "0", "0", "F", "F">>
ColOlive == <<"#", "1", "2", "3", "4", "5", "6">>
ColRedLower == <<"#", "f", "f", "0", "0", "0", "0">>
ColBlueLower == <<"#", "0", "0", "0", "0", "f", "f">>
ColYellow3 == <<"#", "f", "f", "0">>
ColCyan3 == <<"#", "0", "f", "f">>
ColBlue3 == <<"#", "0", "0", "f">>

\* gradient strings, as lists of entries:
\* "", the default, one colour, one positioned colour, three colours,
\* "#FF0000@0.25,#00FF00,#0000FF,#FFFFFF", positions outside [0,1], a position
\* that is no number (alone, and between two colours), two stops at 1, two
\* stops at 0, "#ff0@0,#0ff@0.5,#00f@1", lower-case colours, unsorted positions
GradientMenu ==
  << <<>>,
     << <<ColCyan, "0">>, <<ColWhite, "1">> >>,
     << <<ColRed, "">> >>,
     << <<ColRed, "0.5">> >>,
     << <<ColRed, "">>, <<ColGreen, "">>, <<ColBlue, "">> >>,
     << <<ColRed, "0.25">>, <<ColGreen, "">>, <<ColBlue, "">>, <<ColWhite, "">> >>,
     << <<ColRed, "2">>, <<ColGreen, "-1">> >>,
     << <<ColRed, "x">> >>,
     << <<ColRed, "">>, <<ColGreen, "x">>, <<ColBlue, "">> >>,
     << <<ColRed, "0">>, <<ColGreen, "1">>, <<ColBlue, "1">> >>,
     << <<ColRed, "0">>, <<ColGreen, "0">>, <<ColBlue, "1">> >>,
     << <<ColYellow3, "0">>, <<ColCyan3, "0.5">>, <<ColBlue3, "1">> >>,
     << <<ColRedLower, "0">>, <<ColBlueLower, "1">> >>,
     << <<ColOlive, "1">>, <<ColGreen, "0.5">>, <<ColBlue, "0">>, <<ColRed, "0.25">> >> >>

\* the argument t of sampleGradient
SampleTs == {-5000, 0, 2500, 5000, Unit, 15000}

CallParseStops(g) ==
  SetProbe(Probe("parseStops", GradientMenu[g], parseStops(GradientMenu[g])))

CallSampleGradient(g, t) ==
  SetProbe(Probe("sampleGradient", <<parseStops(GradientMenu[g]), t>>,
                 sampleGradient(parseStops(GradientMenu[g]), t)))

\* applyPointModifiers: cluster settings <<clusterCount, clusterSpread>>
ClusterMenu == << <<1, 0>>, <<1, 50>>, <<3, 0>>, <<3, 50>> >>

\* a magnitude of noiseDistortion, noiseWarp, fieldFlow, repelForce, densityPulse
Magnitudes == {0, 50}

\* orientation angles: dynamics.orientXDeg, orientYDeg, orientZDeg, then
\* distribution.orientXDeg, orientYDeg, orientZDeg (Undefined: not set)
OrientMenu ==
  << <<0, 0, 0, Undefined, Undefined, Undefined>>,
     <<30, 0, 60, Undefined, Undefined, Undefined>>,
     <<0, 45, 0, Undefined, Undefined, Undefined>>,
     <<Undefined, Undefined, Undefined, 30, 45, 60>>,
     <<0, 0, 0, 30, 45, 60>> >>

ModifierPoints == {3, 5}
ModifierSeeds == {0, 4}

\* the state with the given modifier settings
ModifierState(c, m, o) ==
  MergeParams(DefaultState,
    [dynamics |-> Obj([orientXDeg |-> OrientMenu[o][1], orientYDeg |-> OrientMenu[o][2],
                       orientZDeg |-> OrientMenu[o][3]]),
     distribution |-> Obj([densityPulse |-> m[5], noiseDistortion |-> m[1],
                           clusterCount |-> ClusterMenu[c][1],
                           clusterSpread |-> ClusterMenu[c][2], repelForce |-> m[4],
                           noiseWarp |-> m[2], fieldFlow |-> m[3],
                           orientXDeg |-> OrientMenu[o][4], orientYDeg |-> OrientMenu[o][5],
                           orientZDeg |-> OrientMenu[o][6]])])

\* arg = <<distribution, dynamics, base point, seed, now>>,
\* res = the running point before the first stage and after each stage
CallApplyPointModifiers(c, m, o, pt, seed, now) ==
  LET st == ModifierState(c, m, o)
      bp == Pt(PurePoints[pt][1], PurePoints[pt][2], PurePoints[pt][3])
  IN  SetProbe(Probe("applyPointModifiers", <<st.distribution, st.dynamics, bp, seed, now>>,
                     applyPointModifiersTrace(bp, seed, st, now)))

\* weightedSample: lists of seeded points (the seeds are the places in the raw
\* list; a list may be a part of a raw list, in any order)
SeededPt(x, y, z, seed) == [x |-> x, y |-> y, z |-> z, seed |-> seed]

WeightLists ==
  << <<SeededPt(0, 0, 0, 0), SeededPt(50, 0, 0, 1), SeededPt(100, 0, 0, 2)>>,
     <<SeededPt(100, 0, 0, 0), SeededPt(50, 0, 0, 1), SeededPt(0, 0, 0, 2)>>,
     <<SeededPt(50, 0, 0, 0), SeededPt(0, 0, 0, 3), SeededPt(50, 0, 0, 1)>>,
     <<SeededPt(100, 0, 0, 0), SeededPt(0, 100, 0, 1)>>,
     <<SeededPt(50, 0, 0, 0)>> >>

\* weight_map: the radial weight, a constant, a call of Math.random()
WeightMaps == <<"", "1", "random()">>

\* the values Math.random() returns in one rebuild, in hundredths
DrawSeqs == << <<10, 90, 50>>, <<90, 10, 50>>, <<0, 0, 0>> >>

\* the weights array of weightedSample
Weights(points, st, us) ==
  [k \in 1..Len(points) |-> weightForPoint(points[k], st, WeightDraw(st, us, k))]

\* two rebuilds of the same list under the same weight_map, Math.random()
\* returning DrawSeqs[u1] in the first and DrawSeqs[u2] in the second:
\* arg = <<points, weight_map>>, res = <<out of the first, out of the second,
\* weights of the first>>
CallWeightedSample(l, e, u1, u2) ==
  LET st == PureState([weight_map |-> WeightMaps[e]], 1)
  IN  SetProbe(Probe("weightedSample", <<WeightLists[l], WeightMaps[e]>>,
                     <<weightedSample(WeightLists[l], st, DrawSeqs[u1]),
                       weightedSample(WeightLists[l], st, DrawSeqs[u2]),
                       Weights(WeightLists[l], st, DrawSeqs[u1])>>))

\* rebuildGeometry around a generator that can raise: try { pts = gen(g) }
\* catch(err) { console.error(...); pts = generators.uv_sphere(g) }.
\* L is the generator's run: the points returned, or the exception raised
CaughtGenerate_NoCatch(L, st) == [threw |-> L.threw, out |-> L.out]

CaughtGenerate(L, st) ==
  [threw |-> FALSE,
   out |-> IF L.threw THEN gen_uv_sphere(st.geometry.R, st.geometry.lat, st.geometry.lon)
           ELSE L.out]

\* basePoints = pts.map((p, idx) => ({ x:p.x, y:p.y, z:p.z, seed: p.seed ?? idx }))
InstallPoints(pts) ==
  [k \in 1..Len(pts) |->
     [x |-> pts[k].x, y |-> pts[k].y, z |-> pts[k].z, seed |-> pts[k].seed]]

\* rebuildGeometry for the run c of the try block: an exception that was not
\* caught leaves the function before basePoints is assigned
RebuildCaught(c, st, base, js) ==
  IF c.threw THEN [threw |-> TRUE, basePoints |-> base]
  ELSE [threw |-> FALSE,
        basePoints |-> InstallPoints(applySampler(SeedPoints(c.out), st, js))]

rebuildGeometryFrom(L, st, base, js) == RebuildCaught(CaughtGenerate(L, st), st, base, js)

\* two of the draw sequences of shuffleArray on n elements: every draw 0, and
\* every draw the largest (no swap)
ProbeShuffles(n) == {[i \in 1..(n - 1) |-> 0], [i \in 1..(n - 1) |-> i]}

\* distribution.dmin of the rebuilds called here
RebuildDmins == {0, 50}

\* the state of a rebuild of distance_field_shape with df_ops = DfMenu[e]
RebuildState(e, cap, dmin) ==
  MergeParams(DefaultState,
    [geometry |-> Obj([topology |-> "distance_field_shape", lat |-> 2, lon |-> 3,
                       df_ops |-> DfMenu[e]]),
     distribution |-> Obj([dmin |-> dmin]),
     system |-> Obj([Nmax |-> cap])])

\* the number of points enforceMinDistance shuffles in that rebuild
RebuildShuffleLen(L, st) ==
  IF st.distribution.dmin > 0 THEN Len(CaughtGenerate(L, st).out) ELSE 0

\* rebuildGeometry() on that state, basePoints being empty before:
\* arg = <<df_ops, did the generator raise, the state>>, res = the exception
\* flag of rebuildGeometry and basePoints after it
CallRebuildGeometry(e, cap, s, dmin) ==
  LET st == RebuildState(e, cap, dmin)
      L == gen_distance_field(st.geometry, st, s)
  IN  \E js \in ProbeShuffles(RebuildShuffleLen(L, st)) :
        SetProbe(Probe("rebuildGeometry", <<DfMenu[e], L.threw, st>>,
                       rebuildGeometryFrom(L, st, <<>>, js)))

\* gen_geodesic(R, level) for g.geo_level|0 = level
GeoLevels == {-1, 0, 1, 2}

CallGenGeodesic(level) ==
  SetProbe(Probe("gen_geodesic", level, gen_geodesic(100, level)))

\* pickColor(p, now) on an item of the frame
Palettes ==
  {"uniform", "every_other", "every_kth", "stripe_longitude", "hsl_time", "directional",
   "by_lat", "by_lon"}

\* gradient strings of GradientMenu that name two colours or more
PaletteGradients == {2, 5, 6, 14}

\* <<h0, dh, wh>>
HueMenu == {<<200, 30, 0>>, <<200, 30, 1>>, <<350, 30, 1>>}

\* <<i, sy, X, Y, Z>>: the poles, a point of the equator, a point of the top row
ColourPoints ==
  {<<0, 3000, 0, 100, 0>>, <<1, 0, -100, 0, 0>>, <<3, 6000, 0, -100, 0>>}

\* now, ms: sin(wh * now * 0.001) is 0, 1 and -1 for wh = 1
ColourTimes == {0, 1571, 4712}

ColourItem(pt) == [i |-> pt[1], sy |-> pt[2], X |-> pt[3], Y |-> pt[4], Z |-> pt[5]]

ColourAppearance(pal, h) ==
  [palette |-> pal, paletteK |-> 2, h0 |-> h[1], dh |-> h[2], wh |-> h[3],
   color |-> "#00C8FF"]

CallPickColor(pal, g, h, pt, now) ==
  SetProbe(Probe("pickColor", <<pal, GradientMenu[g], h, pt, now>>,
                 pickColor(ColourItem(pt), now, ColourAppearance(pal, h),
                           parseStops(GradientMenu[g]), <<800, 600>>)))

\* the body of the item loop of frame on one base point, for the point sizes
\* and size modulations below; hundredths, degrees, Hz, ms
PointSizes == {20, 40}

SizeAmps == {0, 50, 150}

SizePhases == {0, 270}

\* <<pxModFreq, now>>
SizeTimes == {<<0, 0>>, <<1, 250>>}

SizeModes == {"none", "by_index"}

SizeState(px, amp, phase, freq, mode) ==
  MergeParams(DefaultState,
              [appearance |-> Obj([px |-> px, pxModMode |-> mode, pxModAmp |-> amp,
                                   pxModFreq |-> freq, pxModPhaseDeg |-> phase])])

\* items.push({i, sx, sy, z:zcam, r, ...}): the radius, the screen position and
\* whether the item was pushed
PushedItem(it) == <<it.r, it.kept, it.sx, it.sy>>

CallProjectItem(px, amp, phase, ft, mode, i) ==
  SetProbe(Probe("projectItem", <<px, amp, phase, ft, mode, i>>,
                 PushedItem(ProjectItem(i, 3, [x |-> 100, y |-> 0, z |-> 0, seed |-> i],
                                        SizeState(px, amp, phase, ft[1], mode), 0, ft[2],
                                        <<800, 600>>))))

\* enforceMinDistance(points, minDist) on seeded point lists: points on a line
\* in neighbouring cells, a list with two coincident points, a triangle
SpacingLists ==
  << << <<0, 0, 0>>, <<30, 0, 0>>, <<90, 0, 0>>, <<-20, 0, 0>> >>,
     << <<0, 0, 0>>, <<0, 0, 0>>, <<100, 100, 0>>, <<140, 100, 0>> >>,
     << <<100, 0, 0>>, <<-50, 87, 0>>, <<-50, -87, 0>> >> >>

SpacingPoints(l) ==
  [k \in 1..Len(SpacingLists[l]) |->
     [x |-> SpacingLists[l][k][1], y |-> SpacingLists[l][k][2],
      z |-> SpacingLists[l][k][3], seed |-> k - 1]]

MinDists == {-50, 0, 50, 150}

\* the values of Math.floor(Math.random()*(i+1)) the shuffle of a call draws
SpacingShuffles(l, minDist) ==
  IF minDist > 0 THEN ShuffleDraws(Len(SpacingLists[l])) ELSE {<<>>}

CallEnforceMinDistance(l, minDist, js) ==
  SetProbe(Probe("enforceMinDistance", <<SpacingPoints(l), minDist, js>>,
                 enforceMinDistance(SpacingPoints(l), minDist, js)))

NextPure ==
  \/ \E e \in 1..Len(ExprMenu) : CallEvalExpression(e)
  \/ \E e \in 1..Len(ExprMenu), c \in 1..Len(PureCounts), cap \in PureCaps,
        s \in 1..Len(Streams) : CallGenDensityWarp(e, c, cap, s)
  \/ \E d \in PoissonDmins, c \in 1..Len(PureCounts), cap \in PureCaps,
        s \in 1..Len(Streams) : CallGenPoissonDisk(d, c, cap, s)
  \/ \E e \in 1..Len(ExprMenu), c \in 1..Len(PureCounts), cap \in PureCaps,
        s \in 1..Len(Streams) : CallGenWeightedSphere(e, c, cap, s)
  \/ \E e \in 1..Len(DfMenu), cap \in PureCaps, s \in 1..Len(Streams) :
        CallGenDistanceField(e, cap, s)
  \/ \E m \in 1..Len(MaskModes), enabled \in BOOLEAN, invert \in BOOLEAN,
        a \in 1..Len(MaskAngles), pt \in 1..Len(PurePoints) :
        CallMaskWeight(m, enabled, invert, a, pt)
  \/ \E g \in 1..Len(GradientMenu) : CallParseStops(g)
  \/ \E g \in 1..Len(GradientMenu), t \in SampleTs : CallSampleGradient(g, t)
  \/ \E m \in 1..Len(DistMaskModes), soft \in MaskSoftnesses, speed \in MaskAnimates,
        now \in PureTimes, pt \in 1..Len(PurePoints) :
        CallComputeMaskWeight(m, soft, speed, now, pt)
  \/ \E c \in 1..Len(ClusterMenu), m \in [1..5 -> Magnitudes], o \in 1..Len(OrientMenu),
        pt \in ModifierPoints, seed \in ModifierSeeds, now \in PureTimes :
        CallApplyPointModifiers(c, m, o, pt, seed, now)
  \/ \E l \in 1..Len(WeightLists), e \in 1..Len(WeightMaps), u1 \in 1..Len(DrawSeqs),
        u2 \in 1..Len(DrawSeqs) : CallWeightedSample(l, e, u1, u2)
  \/ \E e \in 1..Len(DfMenu), cap \in PureCaps, str \in 1..Len(Streams),
        dmin \in RebuildDmins : CallRebuildGeometry(e, cap, str, dmin)
  \/ \E level \in GeoLevels : CallGenGeodesic(level)
  \/ \E pal \in Palettes, g \in PaletteGradients, h \in HueMenu, pt \in ColourPoints,
        now \in ColourTimes : CallPickColor(pal, g, h, pt, now)
  \/ \E px \in PointSizes, amp \in SizeAmps, phase \in SizePhases, ft \in SizeTimes,
        mode \in SizeModes, i \in {0, 1} : CallProjectItem(px, amp, phase, ft, mode, i)
  \/ \E l \in 1..Len(SpacingLists), minDist \in MinDists :
       \E js \in SpacingShuffles(l, minDist) : CallEnforceMinDistance(l, minDist, js)

SpecPure == Init /\ [][NextPure]_vars

\* ------------------------------------------------------------------- claims
\* every base point set one rebuildGeometry() can leave for configuration st:
\* generator, seeds, sampler, over the random values and the shuffle draws
BuildOutcomes(st) ==
  UNION { { applySampler(SeedPoints(Generate(st, rnd)), st, js) :
              js \in ShuffleDraws(ShuffleLen(st, rnd)) } :
          rnd \in SeqsOf(RandU, RandomDraws(st)) }

\* C1: every frame, in any interleaving with setDyxtenParams, iterates over a
\* basePoints that is the complete result (generator, sampler, seeds) of one
\* rebuildGeometry made from the configuration as it stands, fully merged.
C1_FrameSeesCompleteRebuild ==
  [][frames' = frames + 1 => basePoints \in BuildOutcomes(state)]_vars

C1_Witness ==
  /\ lastOp = "frame" /\ sets = 2 /\ frames = 2
  /\ state.distribution.sampler = "blue_noise" /\ Len(calls) > 0

\* C2: every execution of the frame callback reaches requestAnimationFrame(frame)
\* at its end, for every configuration setDyxtenParams can install: after a
\* frame the next frame is always pending.
C2_FrameAlwaysRequestsNext == lastOp = "frame" => rafPending

\* C3: after every setDyxtenParams whose argument holds a geometry section,
\* basePoints is the sampler applied to the generator output, both evaluated on
\* the state as merged by this call (not the state before it, not the old set).
C3_RebuildAfterGeometryMerge ==
  [][(sets' = sets + 1 /\ "geometry" \in DOMAIN ParamMenu[lastObj'])
       => basePoints' \in BuildOutcomes(MergeParams(state, ParamMenu[lastObj']))]_vars

C3_Witness ==
  /\ lastOp = "set" /\ sets = 2 /\ frames > 0
  /\ "geometry" \in DOMAIN ParamMenu[lastObj]
  /\ state.geometry.topology = "fibo_sphere" /\ Len(basePoints) = 2

ClampedCount(w, m, M) ==
  IF w[1] < 0 THEN Min(m, M)
  ELSE IF w[1] > 0 THEN M
  ELSE Min(Max(w[2], m), M)

\* the fixed minimum of the topology selected in the state
TopologyMin ==
  LET hits == {k \in 1..Len(CountTopologies) :
                 CountTopologies[k].topology = state.geometry.topology}
  IN  IF hits = {} THEN 0 ELSE CountTopologies[CHOOSE k \in hits : TRUE].min

\* C5: for the count-parameterized generators the number of generated points is
\* the requested N clamped to [m, Nmax], m the fixed minimum of the topology, for
\* every integer N (N <= 0 and N >= 2^31 included) and every Nmax >= 1.
C5_CountIsClampedN ==
  (lastOp = "set" /\ TopologyMin > 0)
    => Len(basePoints) = ClampedCount(state.geometry.N, TopologyMin, state.system.Nmax)

\* the same, for the requests inside the signed 32-bit range
C5_CountIsClampedInt32 ==
  (lastOp = "set" /\ TopologyMin > 0
     /\ state.geometry.N[1] >= -32768 /\ state.geometry.N[1] < 32768)
    => Len(basePoints) = ClampedCount(state.geometry.N, TopologyMin, state.system.Nmax)

\* the topologies the point-count family of the claim names, as far as modelled
CappedFamily ==
  {"fibo_sphere", "disk_phyllotaxis", "lissajous_disk", "helix",
   "line_integral_convolution_sphere", "random_geometric_graph",
   "concentric_rings", "hex_packing_plane", "voronoi_seeds"}

\* C6: after any rebuildGeometry with system.Nmax = M > 0 and a topology of the
\* point-count family, basePoints holds at most M points, whatever the
\* per-topology count parameters are.
C6_BasePointsWithinCap ==
  (state.system.Nmax > 0 /\ state.geometry.topology \in CappedFamily)
    => Len(basePoints) <= state.system.Nmax

\* C7: whenever distribution.dmin > 0, after rebuildGeometry with any sampler
\* and any shuffle order, every two distinct points of basePoints are at
\* Euclidean distance >= dmin.
C7_MinDistanceHolds ==
  state.distribution.dmin > 0 =>
    \A a, b \in 1..Len(basePoints) :
      a # b => Dist2(basePoints[a], basePoints[b])
                 >= state.distribution.dmin * state.distribution.dmin

C7_Witness ==
  /\ state.distribution.dmin > 0 /\ lastOp = "set"
  /\ state.geometry.topology = "fibo_sphere" /\ state.system.Nmax > 2
  /\ Len(basePoints) = 2

\* C8: in every frame with distribution.dmin_px > 0, any two items that reach
\* the rasteriser are at screen distance >= dmin_px, also for dmin_px below one
\* pixel, and only the points accepted in this frame can reject a point.
C8_ScreenSpacingHolds ==
  (lastOp = "frame" /\ state.distribution.dmin_px > 0) =>
    \A a, b \in 1..Len(calls) :
      (a # b /\ calls[a].sx # NaN /\ calls[b].sx # NaN)
        => ScreenDist2(calls[a], calls[b])
             >= state.distribution.dmin_px * state.distribution.dmin_px

\* two frames in a row draw the same two of three base points, at a spacing
\* above one pixel
C8_Witness ==
  /\ lastOp = "frame" /\ frames = 2 /\ state.distribution.dmin_px > 10
  /\ Len(basePoints) = 3 /\ Len(calls) = 2

\* a spacing below one pixel: the cell is one pixel, coincident points are dropped
C8_WitnessSubPixel ==
  /\ lastOp = "frame" /\ state.distribution.dmin_px > 0 /\ state.distribution.dmin_px < 10
  /\ Len(calls) >= 2 /\ Len(calls) < Len(basePoints)

C10_AzimuthIsRateTimesSpan ==
  camThetaDeg = JsRem(state.camera.omegaDegPerSec * lastT, 360000)

\* C10, amended: the same, when every frame came between 0 and 0.1 s after
\* the previous timestamp (the step of a frame is clamped to [0, 0.1] s).
C10_AzimuthIsRateTimesSpanInClamp ==
  gapsInClamp => camThetaDeg = JsRem(state.camera.omegaDegPerSec * lastT, 360000)

\* a full turn: 1800 deg/s over two frames of 100 ms wraps to 0
C10_Witness ==
  /\ gapsInClamp /\ frames = 2 /\ lastT = 200
  /\ state.camera.omegaDegPerSec = 1800 /\ camThetaDeg = 0

\* C11: each frame advances the azimuth by omega*dt, dt = (now - lastT)/1000
\* clamped to [0, 0.1] s, and sets lastT to now: a gap of any length advances
\* it by at most 0.1*|omega|, a timestamp not later than the previous one by 0.
C11_StepIsClampedGap ==
  [][frames' = frames + 1 =>
       \E dt \in 0..100 :
         /\ dt = (IF lastT' - lastT < 0 THEN 0
                  ELSE IF lastT' - lastT > 100 THEN 100 ELSE lastT' - lastT)
         /\ camThetaDeg' = JsRem(camThetaDeg + state.camera.omegaDegPerSec * dt, 360000)
         /\ (lastT' <= lastT => camThetaDeg' = camThetaDeg)]_vars

\* an early timestamp (no advance) followed by a 250 ms gap (advance 0.1*omega)
C11_Witness ==
  /\ lastOp = "frame" /\ frames = 2 /\ lastT = 234
  /\ camThetaDeg = 100 * state.camera.omegaDegPerSec

\* C12: for every geometry.topology that is no generator name, rebuildGeometry
\* builds the base set with gen_uv_sphere(R, lat, lon), then the sampler: the
\* base set is never left empty because the name is unknown.
C12_UnknownTopologyBuildsUvSphere ==
  (lastOp = "set" /\ state.geometry.topology \notin GeneratorNames)
    => /\ Len(basePoints) > 0
       /\ basePoints
            = applySampler(SeedPoints(gen_uv_sphere(state.geometry.R, state.geometry.lat,
                                                     state.geometry.lon)), state, <<>>)

\* the generators that evaluate a free-form expression, the rejection samplers
ExpressionGenerators == {"gen_density_warp", "gen_weighted_sphere", "gen_distance_field"}
RejectionSamplers == ExpressionGenerators \cup {"gen_poisson_disk"}

\* the expression fails to compile, raises when evaluated, or is not finite
ExprFails(expr) == expr \in ExprSyntaxErrors \cup ExprReferenceErrors \cup ExprNonFinite

\* C13: a density_pdf, weight_map or df_ops string that fails to compile, raises
\* when evaluated or yields a non-finite value is handled where it is evaluated:
\* every failing evaluation gives the value 0 and a logged warning, the sampling
\* loop goes on with that value, and no error leaves the generator.
C13_ExpressionFailureHandledInPlace ==
  /\ (probe.fn = "evalExpression" /\ ExprFails(probe.arg.expr))
       => (probe.res.value = 0 /\ probe.res.warned)
  /\ (probe.fn \in ExpressionGenerators /\ ExprFails(probe.arg.expr))
       => /\ ~probe.res.threw
          /\ probe.res.attempts > 0
          /\ probe.res.warnings >= probe.res.attempts

\* C13, its last part: no error raised by the evaluation of the expression
\* leaves the generator that evaluates it.
C13_NoErrorLeavesGenerator ==
  (probe.fn \in ExpressionGenerators /\ ExprFails(probe.arg.expr)) => ~probe.res.threw

\* the part of C13 that holds: a density_pdf or weight_map that fails to compile
\* or raises gives 0 and a warning at each of its evaluations, no error leaves
\* the generator, and a density of 0 never accepts
C13_CaughtInEvalExpression ==
  (probe.fn \in {"gen_density_warp", "gen_weighted_sphere"}
     /\ probe.arg.expr \in ExprSyntaxErrors \cup ExprReferenceErrors)
    => /\ ~probe.res.threw
       /\ probe.res.warnings
            = probe.res.attempts + (IF probe.fn = "gen_density_warp" THEN 0 ELSE WeightSamples)
       /\ (probe.fn = "gen_density_warp"
             => probe.res.attempts = 20 * probe.arg.count /\ probe.res.out = <<>>)

\* the budget of each rejection sampler, in attempts per requested point
Budget(fn) ==
  CASE fn = "gen_density_warp" -> 20
    [] fn = "gen_poisson_disk" -> 50
    [] fn = "gen_weighted_sphere" -> 40
    [] fn = "gen_distance_field" -> 50

\* C14: every rejection sampler stops within its budget (20, 50, 40, 50 attempts
\* per requested point) and returns what was accepted, between 0 and count
\* points, also when nothing is ever accepted; it stops early only with count
\* points (or on an exception).
C14_SamplersStopWithinBudget ==
  probe.fn \in RejectionSamplers =>
    /\ probe.res.attempts <= Budget(probe.fn) * probe.arg.count
    /\ Len(probe.res.out) <= probe.arg.count
    /\ Len(probe.res.out) <= probe.res.attempts
    /\ (probe.res.attempts < Budget(probe.fn) * probe.arg.count
          => (Len(probe.res.out) = probe.arg.count \/ probe.res.threw
                \/ probe.arg.expr \in ExprSyntaxErrors))

\* a field that never accepts: the whole budget of 150 evaluations, no point
C14_Witness ==
  /\ probe.fn = "gen_distance_field" /\ probe.arg.expr = "1/0" /\ probe.arg.count = 3
  /\ probe.res.attempts = 150 /\ probe.res.out = <<>>

\* a partial result: density_warp_disk out of budget with one point of two
C14_WitnessPartial ==
  /\ probe.fn \in {"gen_density_warp", "gen_poisson_disk"} /\ probe.arg.count >= 2
  /\ probe.res.attempts = Budget(probe.fn) * probe.arg.count
  /\ Len(probe.res.out) > 0 /\ Len(probe.res.out) < probe.arg.count

\* C15: with the mask mode "none" the mask weight of every point is exactly 1,
\* whatever enabled, invert, the angles, the position and the time are; and with
\* distribution.maskMode "none" the distribution mask weight is 1 for any
\* maskSoftness and maskAnimate.
C15_MaskNoneIsOne ==
  /\ (probe.fn = "maskWeight" /\ probe.arg[1].mode = "none") => probe.res = 100
  /\ (probe.fn = "computeMaskWeight" /\ probe.arg[1].maskMode = "none") => probe.res = 100

\* an enabled, inverted mask of mode "none", at the north pole
C15_Witness ==
  /\ probe.fn = "maskWeight" /\ probe.arg[1].mode = "none"
  /\ probe.arg[1].enabled /\ probe.arg[1].invert /\ probe.arg[1].softDeg = 0
  /\ probe.arg[2] = <<0, 100, 0>> /\ probe.res = 100

\* the distribution mask, mode "none", animated
C15_WitnessDistribution ==
  /\ probe.fn = "computeMaskWeight" /\ probe.arg[1].maskMode = "none"
  /\ probe.arg[1].maskAnimate = 100 /\ probe.arg[3] = 250 /\ probe.res = 100

\* the other modes do cut: a weight of 0 and a weight strictly between 0 and 1
C15_WitnessOtherModes ==
  /\ probe.fn \in {"maskWeight", "computeMaskWeight"}
  /\ probe.res > 0 /\ probe.res < 100

\* the colours of a stop list are all of the form "#RRGGBB", upper case
UpperHex6(stops) ==
  \A k \in 1..Len(stops) :
    /\ Len(stops[k].c) = 7 /\ stops[k].c[1] = "#"
    /\ \A j \in 2..7 : \E d \in 1..16 : HexUpper[d] = stops[k].c[j]

\* C16: for every stop list parseStops produces, sampleGradient(stops, 0) is the
\* colour of the first stop and sampleGradient(stops, 1) the colour of the last
\* stop, exactly as stored (lower-case and 3-digit colours and several stops at
\* one position included).
C16_EndpointsReturnStoredColour ==
  probe.fn = "sampleGradient" =>
    /\ probe.arg[2] = 0 => probe.res = probe.arg[1][1].c
    /\ probe.arg[2] = Unit => probe.res = probe.arg[1][Len(probe.arg[1])].c

\* what does hold: with colours "#RRGGBB" in upper case and numeric positions,
\* t = 0 gives the colour of the first stop, and t = 1 the colour of the first
\* stop at position 1
C16_EndpointsUpperCaseHex ==
  (probe.fn = "sampleGradient" /\ UpperHex6(probe.arg[1])
     /\ \A k \in 1..Len(probe.arg[1]) : probe.arg[1][k].t # NaN) =>
    /\ probe.arg[2] = 0 => probe.res = probe.arg[1][1].c
    /\ probe.arg[2] = Unit =>
         \E k \in 1..Len(probe.arg[1]) :
           /\ probe.arg[1][k].t = Unit /\ probe.res = probe.arg[1][k].c
           /\ \A j \in 1..(k - 1) : probe.arg[1][j].t < Unit

\* C17: for every gradient string parseStops returns at least two stops, sorted
\* by non-decreasing position, the first at 0, the last at 1, every position
\* inside [0,1]; the entries without a position are spaced evenly over [0,1]
\* among themselves.
C17_StopsCoverUnitInterval ==
  probe.fn = "parseStops" =>
    /\ Len(probe.res) >= 2
    /\ probe.res[1].t = 0 /\ probe.res[Len(probe.res)].t = Unit
    /\ \A k \in 1..Len(probe.res) : probe.res[k].t \in 0..Unit
    /\ \A k \in 1..(Len(probe.res) - 1) : probe.res[k].t <= probe.res[k + 1].t
    /\ \A k \in 1..Len(probe.arg) :
         probe.arg[k][2] = "" =>
           \E j \in 1..Len(probe.res) :
             /\ probe.res[j].c = probe.arg[k][1]
             /\ probe.res[j].t = SpreadT(FreeUpTo(probe.arg, k - 1),
                                         FreeUpTo(probe.arg, Len(probe.arg)))

\* the same, for the strings whose positions all parse as numbers
C17_StopsCoverUnitIntervalWhenNumeric ==
  (probe.fn = "parseStops"
     /\ \A k \in 1..Len(probe.arg) : probe.arg[k][2] = "" \/ ParseFloat(probe.arg[k][2]) # NaN)
    => C17_StopsCoverUnitInterval

\* C18: every rendered item is drawn with alpha = appearance.opacity x
\* maskWeight(item) x depthAlpha(item depth), clamped to [0,1], for every
\* opacity in [0,1], 0 included (opacity 0 draws every item with alpha 0).
C18_AlphaIsProduct ==
  lastOp = "frame" =>
    \A k \in 1..Len(calls) :
      calls[k].alpha
        = clamp01(MulC(MulC(state.appearance.opacity, calls[k].aMask), calls[k].aDepth))

\* the same for the opacities other than 0
C18_AlphaIsProductNonZeroOpacity ==
  (lastOp = "frame" /\ state.appearance.opacity # 0) =>
    \A k \in 1..Len(calls) :
      calls[k].alpha
        = clamp01(MulC(MulC(state.appearance.opacity, calls[k].aMask), calls[k].aDepth))

\* opacity 0.5, a mask that cuts and a depth fade, all three below 1
C18_WitnessNonZeroOpacity ==
  /\ lastOp = "frame" /\ state.appearance.opacity = 50
  /\ \E k \in 1..Len(calls) :
       /\ calls[k].aMask > 0 /\ calls[k].aMask < 100 /\ calls[k].aDepth < 100
       /\ calls[k].alpha > 0 /\ calls[k].alpha < 50

\* C19: each stage of applyPointModifiers leaves the running point (x,y,z)
\* unchanged when its own magnitude is zero, whatever the other magnitudes
\* are: the cluster pull with clusterSpread = 0 or clusterCount <= 1, the
\* distortion with noiseDistortion = 0, the warp with noiseWarp = 0, the flow
\* rotation with fieldFlow = 0, the repulsion with repelForce = 0, the pulse
\* with densityPulse = 0, each orientation rotation with a zero angle; with
\* all of them zero the result is the base point's coordinates.
StageMagnitudeZero(k, dist, dyn) ==
  CASE k = 1 -> dist.clusterSpread = 0 \/ dist.clusterCount <= 1
    [] k = 2 -> dist.noiseDistortion = 0
    [] k = 3 -> dist.noiseWarp = 0
    [] k = 4 -> dist.fieldFlow = 0
    [] k = 5 -> dist.repelForce = 0
    [] k = 6 -> dist.densityPulse = 0
    [] k = 7 -> OrientDeg(dyn, dist, "orientXDeg") = 0
    [] k = 8 -> OrientDeg(dyn, dist, "orientYDeg") = 0
    [] k = 9 -> OrientDeg(dyn, dist, "orientZDeg") = 0

C19_ZeroMagnitudeStageIsIdentity ==
  probe.fn = "applyPointModifiers" =>
    /\ \A k \in 1..Len(ModifierStages) :
         StageMagnitudeZero(k, probe.arg[1], probe.arg[2]) => probe.res[k + 1] = probe.res[k]
    /\ (\A k \in 1..Len(ModifierStages) : StageMagnitudeZero(k, probe.arg[1], probe.arg[2]))
         => probe.res[Len(ModifierStages) + 1] = probe.arg[3]

\* one stage at zero (noiseDistortion) between stages that move the point
C19_Witness ==
  /\ probe.fn = "applyPointModifiers"
  /\ StageMagnitudeZero(2, probe.arg[1], probe.arg[2])
  /\ \A k \in (1..Len(ModifierStages)) \ {2} :
       /\ ~StageMagnitudeZero(k, probe.arg[1], probe.arg[2])
       /\ probe.res[k + 1] # probe.res[k]
  /\ probe.res[3] = probe.res[2]

\* every magnitude zero, at a seed and a time other than 0
C19_WitnessAllZero ==
  /\ probe.fn = "applyPointModifiers"
  /\ \A k \in 1..Len(ModifierStages) : StageMagnitudeZero(k, probe.arg[1], probe.arg[2])
  /\ probe.arg[4] = 4 /\ probe.arg[5] = 250
  /\ probe.res[Len(ModifierStages) + 1] = probe.arg[3]

\* clusterCount = 1 with a positive spread, and a zero angle in dynamics over
\* a non-zero one in distribution
C19_WitnessClusterCountOne ==
  /\ probe.fn = "applyPointModifiers"
  /\ probe.arg[1].clusterCount = 1 /\ probe.arg[1].clusterSpread = 50
  /\ probe.arg[2].orientXDeg = 0 /\ probe.arg[1].orientXDeg = 30
  /\ probe.arg[1].repelForce = 50
  /\ probe.res[2] = probe.res[1] /\ probe.res[8] = probe.res[7]
  /\ probe.res[6] # probe.res[5]

\* the seeds of a point list, in order
SeedsOf(pts) == [k \in 1..Len(pts) |-> pts[k].seed]

\* the largest of the weights ws
MaxOf(ws) == IF Len(ws) = 0 THEN 0 ELSE CHOOSE m \in {ws[k] : k \in 1..Len(ws)} :
                                          \A k \in 1..Len(ws) : ws[k] <= m

\* is a point of seed and weight w retained, the largest weight being maxW:
\* a function of the seed and of w / maxW only
RetainedBySeed(seed, w, maxW) ==
  maxW <= 0 \/ QuoT(100 * w, maxW) >= 100 \/ randForIndex(seed + 1) <= QuoT(100 * w, maxW)

\* every point is retained just when RetainedBySeed says so
RetentionBySeedOnly(points, out, ws) ==
  \A k \in 1..Len(points) :
    (\E j \in 1..Len(out) : out[j].seed = points[k].seed)
      <=> RetainedBySeed(points[k].seed, ws[k], MaxOf(ws))

\* C20: weighted sampling is reproducible: two rebuilds from the same point
\* list and the same weight_map retain the same seeds in the same order, and a
\* point is retained or not by its own seed and its weight normalised by the
\* largest weight only, not by its place in the list nor by any other source
\* of randomness.
C20_WeightedSamplingReproducible ==
  probe.fn = "weightedSample" =>
    /\ SeedsOf(probe.res[1]) = SeedsOf(probe.res[2])
    /\ RetentionBySeedOnly(probe.arg[1], probe.res[1], probe.res[3])

\* the part of C20 that holds: the same, for a weight_map that makes no call
\* of Math.random()
C20_ReproducibleWithoutRandomCalls ==
  (probe.fn = "weightedSample" /\ probe.arg[2] # "random()") =>
    /\ SeedsOf(probe.res[1]) = SeedsOf(probe.res[2])
    /\ RetentionBySeedOnly(probe.arg[1], probe.res[1], probe.res[3])

\* a list whose seeds are not its places, one point retained and one dropped
C20_WitnessWithoutRandomCalls ==
  /\ probe.fn = "weightedSample" /\ probe.arg[2] = ""
  /\ \E k \in 1..Len(probe.arg[1]) : probe.arg[1][k].seed # k - 1
  /\ Len(probe.res[1]) > 1 /\ Len(probe.res[1]) < Len(probe.arg[1])
  /\ probe.res[1] = probe.res[2]

\* C21: a frame callback leaves basePoints as it was (length, order,
\* coordinates, seeds); basePoints changes only in rebuildGeometry, by the one
\* assignment that installs a complete new array (generator, seeds, sampler of
\* the merged state).
C21_BasePointsReadOnlyInFrame ==
  [][/\ frames' = frames + 1 => basePoints' = basePoints
     /\ basePoints' # basePoints =>
          (sets' = sets + 1 /\ basePoints' \in BuildOutcomes(state'))]_vars

\* a frame after a rebuild, whose items were drawn in another order than the
\* order of the base points
C21_Witness ==
  /\ lastOp = "frame" /\ sets > 0 /\ Len(basePoints) >= 2
  /\ \E k \in 1..(Len(calls) - 1) : calls[k].i > calls[k + 1].i
  /\ \A k \in 1..Len(basePoints) : basePoints[k].seed = k - 1

\* the base point sets a rebuild can install from the UV sphere of st
UvSphereOutcomes(st) ==
  { InstallPoints(applySampler(SeedPoints(gen_uv_sphere(st.geometry.R, st.geometry.lat,
                                                        st.geometry.lon)), st, js)) :
      js \in ProbeShuffles(IF st.distribution.dmin > 0
                             THEN Len(gen_uv_sphere(st.geometry.R, st.geometry.lat,
                                                    st.geometry.lon))
                             ELSE 0) }

C22_WitnessNoFailure ==
  /\ probe.fn = "rebuildGeometry" /\ ~probe.arg[2]
  /\ Len(probe.res.basePoints) > 0

\* 4^n
RECURSIVE Pow4(_)
Pow4(n) == IF n <= 0 THEN 1 ELSE 4 * Pow4(n - 1)

\* C23: gen_geodesic(R, level) returns 20 * 4^level points (20 for level <= 0);
\* in each subdivision pass every undirected edge gets one midpoint vertex, so
\* after L passes the vertex list has 10 * 4^L + 2 entries and no two entries
\* were made for the same edge.
C23_GeodesicCounts ==
  probe.fn = "gen_geodesic" =>
    /\ Len(probe.res[1]) = 20 * Pow4(probe.arg)
    /\ Len(probe.res[2]) = 10 * Pow4(probe.arg) + 2
    /\ Len(probe.res[3]) = Max(0, probe.arg)
    /\ \A l \in 1..Len(probe.res[3]) :
         /\ Len(probe.res[3][l]) = 30 * Pow4(l - 1)
         /\ \A i, j \in 1..Len(probe.res[3][l]) :
              i # j =>
                /\ probe.res[3][l][i] # probe.res[3][l][j]
                /\ probe.res[3][l][i] # <<probe.res[3][l][j][2], probe.res[3][l][j][1]>>

\* two subdivision passes: 320 points, 162 vertices
C23_Witness ==
  /\ probe.fn = "gen_geodesic" /\ probe.arg = 2
  /\ Len(probe.res[1]) = 320 /\ Len(probe.res[2]) = 162
  /\ Len(probe.res[3][2]) = 120

\* the distance of two hues on the circle, hundredths of a degree
HueDist(a, b) == Min(Abs(wrapHue(a) - wrapHue(b)), 36000 - Abs(wrapHue(a) - wrapHue(b)))

HuePalettes == {"directional", "by_lat", "by_lon"}

\* C24: for the palettes directional, by_lat and by_lon the hue of every point
\* differs from h0 by at most dh (modulo 360) at every time and position,
\* also when the sinusoidal animation is active (wh # 0).
C24_HueWithinDh ==
  (probe.fn = "pickColor" /\ probe.arg[1] \in HuePalettes) =>
    HueDist(probe.res[2], 100 * probe.arg[3][1]) <= 100 * Abs(probe.arg[3][2])

\* without the animation (wh = 0) the hue stays within dh of h0
C24_HueWithinDhWhenStill ==
  (probe.fn = "pickColor" /\ probe.arg[1] \in HuePalettes /\ probe.arg[3][3] = 0) =>
    HueDist(probe.res[2], 100 * probe.arg[3][1]) <= 100 * Abs(probe.arg[3][2])

\* with the animation the excursion reaches one and a half times dh, not more
C24_HueWithinOneAndAHalfDh ==
  (probe.fn = "pickColor" /\ probe.arg[1] \in HuePalettes) =>
    HueDist(probe.res[2], 100 * probe.arg[3][1]) <= 150 * Abs(probe.arg[3][2])

C24_WitnessOneAndAHalfDh ==
  /\ probe.fn = "pickColor" /\ probe.arg[1] = "by_lat" /\ probe.arg[3][3] # 0
  /\ HueDist(probe.res[2], 100 * probe.arg[3][1]) = 150 * probe.arg[3][2]

\* the colours a gradient string names, in the order it names them
Configured(entries) == [k \in 1..Len(entries) |-> entries[k][1]]

\* C25: with palette every_other and a gradient string that names two colours
\* or more, a point of even index is drawn with the first configured colour
\* and a point of odd index with the second, whatever the positions of the
\* stops (a first stop above 0 included).
C25_EveryOtherAlternatesConfigured ==
  (probe.fn = "pickColor" /\ probe.arg[1] = "every_other" /\ Len(probe.arg[2]) >= 2) =>
    probe.res = Configured(probe.arg[2])[(probe.arg[4][1] % 2) + 1]

\* what the code draws: the first two stops of the parsed list
C25_EveryOtherAlternatesParsedStops ==
  (probe.fn = "pickColor" /\ probe.arg[1] = "every_other") =>
    probe.res = parseStops(probe.arg[2])[(probe.arg[4][1] % 2) + 1].c

C25_WitnessDuplicateFirstStop ==
  /\ probe.fn = "pickColor" /\ probe.arg[1] = "every_other"
  /\ probe.arg[4][1] % 2 = 1
  /\ probe.arg[2][1][2] = "0.25"
  /\ probe.res = probe.arg[2][1][1]
  /\ probe.res # probe.arg[2][2][1]

\* the seeded raw output of the generator, for the values of Math.random() it drew
RawOutcomes(st) == {SeedPoints(Generate(st, rnd)) : rnd \in SeqsOf(RandU, RandomDraws(st))}

\* every base point is an element of raw, found at the place its seed names
SeedsPointInto(base, raw) ==
  \A k \in 1..Len(base) :
    /\ base[k].seed \in 0..(Len(raw) - 1)
    /\ base[k] = raw[base[k].seed + 1]

\* C26: after every rebuildGeometry the seeds of basePoints are pairwise
\* distinct naturals, each the index the point had in the raw generator
\* output, each still attached to the coordinates it was assigned to,
\* whatever sampler ran and although minimum-distance enforcement shuffles
\* and drops points.
C26_SeedsAreRawIndices ==
  /\ \A j, k \in 1..Len(basePoints) : j # k => basePoints[j].seed # basePoints[k].seed
  /\ \E raw \in RawOutcomes(state) : SeedsPointInto(basePoints, raw)

\* a rebuild whose minimum-distance pass dropped a point and left a seed away
\* from its place
C26_Witness ==
  /\ lastOp = "set" /\ state.distribution.dmin > 0
  /\ Len(basePoints) >= 2
  /\ \E raw \in RawOutcomes(state) :
       SeedsPointInto(basePoints, raw) /\ Len(basePoints) < Len(raw)
  /\ \E k \in 1..Len(basePoints) : basePoints[k].seed # k - 1

C26_WitnessWeighted ==
  /\ lastOp = "set" /\ state.distribution.sampler = "weighted_sampling"
  /\ Len(basePoints) >= 1
  /\ \E raw \in RawOutcomes(state) :
       SeedsPointInto(basePoints, raw) /\ Len(basePoints) < Len(raw)

\* the arguments of the menu without a geometry, distribution or system section
NonGeometryEntries ==
  {i \in 1..Len(ParamMenu) :
     DOMAIN ParamMenu[i] \cap {"geometry", "distribution", "system"} = {}}

\* C27: a setDyxtenParams call whose input has no geometry, distribution or
\* system section leaves basePoints unchanged (same points, order and seeds)
\* for every topology and sampler, the randomised ones included.
C27_NonGeometryUpdateKeepsBasePoints ==
  [][(sets' = sets + 1 /\ lastObj' \in NonGeometryEntries) => basePoints' = basePoints]_vars

\* it does when the rebuild draws no random number: a generator without
\* Math.random() and no minimum-distance shuffle
C27_KeptWithoutRandomDraws ==
  [][(/\ sets' = sets + 1 /\ lastObj' \in NonGeometryEntries
      /\ RandomDraws(state) = 0 /\ state.distribution.dmin <= 0)
       => basePoints' = basePoints]_vars

C27_WitnessKept ==
  /\ lastOp = "set" /\ lastObj \in NonGeometryEntries
  /\ state.geometry.topology = "concentric_rings" /\ state.distribution.dmin <= 0
  /\ Len(basePoints) >= 2
  /\ basePoints \in BuildOutcomes(state)

\* C28: after any sequence of frames and configuration updates the camera
\* azimuth camThetaDeg lies in [0, 360), for every configured angular
\* velocity, positive, zero or negative.
C28_AzimuthInZeroTo360 == camThetaDeg >= 0 /\ camThetaDeg < 360000

\* the remainder keeps the sign of the sum: the azimuth stays within one turn
\* of 0 on either side, and in [0, 360) for a velocity that is not negative
C28_AzimuthWithinOneTurn ==
  /\ camThetaDeg > -360000 /\ camThetaDeg < 360000
  /\ state.camera.omegaDegPerSec >= 0 => camThetaDeg >= 0

C28_WitnessWrapped ==
  /\ lastOp = "frame" /\ frames >= 2 /\ state.camera.omegaDegPerSec = 1800
  /\ camThetaDeg = 0 /\ lastT >= 200

C28_WitnessNegative ==
  /\ lastOp = "frame" /\ state.camera.omegaDegPerSec < 0 /\ camThetaDeg < 0

\* C29: every item handed to the rasteriser has a finite radius >= 0, for
\* every point size px, every size-modulation amplitude pxModAmp (amplitudes
\* above 1 included), every modulation mode and every time.
C29_RadiusNonNegative ==
  (probe.fn = "projectItem" /\ probe.res[2]) => (probe.res[1] # NaN /\ probe.res[1] >= 0)

\* for a positive point size and an amplitude of at most 1 the radius is >= 0
C29_RadiusNonNegativeUpToAmpOne ==
  (probe.fn = "projectItem" /\ probe.res[2] /\ probe.arg[1] > 0 /\ probe.arg[2] <= 100)
    => (probe.res[1] # NaN /\ probe.res[1] >= 0)

C29_WitnessAmpOne ==
  /\ probe.fn = "projectItem" /\ probe.res[2]
  /\ probe.arg[1] > 0 /\ probe.arg[2] = 50 /\ probe.arg[3] = 270
  /\ probe.res[1] > 0

C29_WitnessAmpAboveOne ==
  /\ probe.fn = "projectItem" /\ probe.res[2]
  /\ probe.arg[1] > 0 /\ probe.arg[2] > 100
  /\ probe.res[1] < 0

\* every element of out is an element of points, and none occurs twice
SubCollection(out, points) ==
  /\ \A k \in 1..Len(out) : \E j \in 1..Len(points) : out[k] = points[j]
  /\ \A j, k \in 1..Len(out) : j # k => out[j] # out[k]

\* every element of points that is not in out is nearer than minDist to one that is
Maximal(out, points, minDist) ==
  \A j \in 1..Len(points) :
    (\A k \in 1..Len(out) : out[k] # points[j])
      => \E k \in 1..Len(out) : Dist2(points[j], out[k]) < minDist * minDist

\* C30: for minDist > 0 the result of enforceMinDistance is a sub-collection
\* of its input (no point added, altered or kept twice) and maximal for the
\* spacing: every dropped point lies nearer than minDist to a kept one,
\* whatever the shuffle; for minDist <= 0 the result is the input, unchanged
\* and in the same order.
C30_MinDistanceResultIsMaximalSubCollection ==
  probe.fn = "enforceMinDistance" =>
    IF probe.arg[2] > 0
      THEN /\ SubCollection(probe.res, probe.arg[1])
           /\ Maximal(probe.res, probe.arg[1], probe.arg[2])
      ELSE probe.res = probe.arg[1]

\* a call that dropped a point and kept two, in an order that is not the input's
C30_Witness ==
  /\ probe.fn = "enforceMinDistance" /\ probe.arg[2] > 0
  /\ Len(probe.res) >= 2 /\ Len(probe.res) < Len(probe.arg[1])
  /\ probe.res[1].seed > probe.res[2].seed

C30_WitnessUnchanged ==
  /\ probe.fn = "enforceMinDistance" /\ probe.arg[2] <= 0
  /\ Len(probe.res) = 4 /\ Dist2(probe.res[1], probe.res[2]) = 0
  /\ \A k \in 1..4 : probe.res[k].seed = k - 1

=============================================================================
